---- MODULE Spec2Model ----
(***************************************************************************)
(* Lakesis virtual machine: the managed memory (virtual address mapper,   *)
(* heap regions, allocation table, tracing and compacting collector) and  *)
(* the interpreter's stack, modelled from src/src/interpreter/memory.rs   *)
(* and src/src/interpreter/mod.rs.                                        *)
(*                                                                         *)
(* A 64-bit word (UWord) is its 8 little-endian bytes, the form in which  *)
(* the heap holds it; the heap is a sequence of bytes (heap[i + 1] is the *)
(* byte at physical offset i).                                            *)
(***************************************************************************)
EXTENDS Integers, Sequences, FiniteSets, TLC

VARIABLES memory, cpu_state, last, ops

vars == <<memory, cpu_state, last, ops>>

---------------------------------------------------------------------------
(* Program constants *)

WORD_BYTE_SIZE == 8

VIRTUAL_PAGE_SIZE == 1024

REGISTER_NUM == 4

(* Bounds of the model.  The two heap sizes are program constants whose   *)
(* values the model scales down so that heap growth and the cap are hit.  *)

INITIAL_MEMORY_SIZE == 32

MAX_MEMORY_SIZE == 64

MaxOps == 4

StackWords == 2

---------------------------------------------------------------------------
(* Arithmetic helpers (memory.rs, bottom of the file) *)

(* The element of a singleton set.  The({e : x \in {v}}) is e with x      *)
(* bound to the value of v, which is evaluated once: the form a result    *)
(* that is used several times is bound in.                                *)
The(S) == CHOOSE e \in S : TRUE

Min(a, b) == IF a < b THEN a ELSE b

round_down_to(value, alignment) == (value \div alignment) * alignment

divide_round_up(dividend, divisor) == (dividend + divisor - 1) \div divisor

bitfield_len(data_len) == divide_round_up(data_len, WORD_BYTE_SIZE * 8)

total_region_len(data_len) == data_len + bitfield_len(data_len)

---------------------------------------------------------------------------
(* UWord as 8 little-endian bytes *)

(* n is below 2^31: the upper four bytes are 0 *)
to_le_bytes(n) ==
    <<n % 256, (n \div 256) % 256, (n \div 65536) % 256,
      (n \div 16777216) % 256, 0, 0, 0, 0>>

(* TRUE iff the word's value is below 2^31, the range the model's         *)
(* integers cover; every mapped virtual address of the model is in it.    *)
IsSmall(w) ==
    /\ w[4] < 128
    /\ \A k \in 5..WORD_BYTE_SIZE : w[k] = 0

from_le_bytes(w) == w[1] + 256 * w[2] + 65536 * w[3] + 16777216 * w[4]

(* Wrapping 64-bit addition and subtraction of a small constant c < 256. *)
RECURSIVE AddCarry(_, _, _)
AddCarry(w, k, c) ==
    IF k > WORD_BYTE_SIZE \/ c = 0 THEN w
    ELSE LET s == w[k] + c
         IN  AddCarry([w EXCEPT ![k] = s % 256], k + 1, s \div 256)

wrapping_add(w, c) == AddCarry(w, 1, c)

RECURSIVE SubBorrow(_, _, _)
SubBorrow(w, k, c) ==
    IF k > WORD_BYTE_SIZE \/ c = 0 THEN w
    ELSE IF w[k] >= c THEN [w EXCEPT ![k] = w[k] - c]
         ELSE SubBorrow([w EXCEPT ![k] = w[k] + 256 - c], k + 1, 1)

wrapping_sub(w, c) == SubBorrow(w, 1, c)

DataWord(v, r) == [value |-> v, is_reference |-> r]

---------------------------------------------------------------------------
(* IdHashMap<T>: ids are handed out from 1 upwards and never reused *)

IdHashMap_new == [next_id |-> 1, map |-> <<>>]

IdHashMap_insert(m, item) ==
    [next_id |-> m.next_id + 1,
     map |-> [i \in (DOMAIN m.map) \cup {m.next_id} |->
                 IF i = m.next_id THEN [item EXCEPT !.id = m.next_id]
                 ELSE m.map[i]]]

IdHashMap_remove(m, id) ==
    [m EXCEPT !.map = [i \in (DOMAIN m.map) \ {id} |-> m.map[i]]]

IdHashMap_contains(m, id) == id \in DOMAIN m.map

---------------------------------------------------------------------------
(* VirtualAddressMapper *)

VirtualAddressMapper_new ==
    [blocks |-> IdHashMap_new, mappings |-> <<>>, next_address |-> 0]

(* A faulty pages_of: the pages that hold the bytes of the block *)
pages_of_bytes(base_addr, size) ==
    [page \in 0..((size - 1) \div VIRTUAL_PAGE_SIZE) |->
        base_addr + page * VIRTUAL_PAGE_SIZE]

(* The (page, addr) pairs of a block: pages 0 ..= size / VIRTUAL_PAGE_SIZE *)
pages_of(base_addr, size) ==
    [page \in 0..(size \div VIRTUAL_PAGE_SIZE) |->
        base_addr + page * VIRTUAL_PAGE_SIZE]

(* Option<UWord> *)
None == [some |-> FALSE, value |-> 0]

Some(x) == [some |-> TRUE, value |-> x]

(* An address of the mapper is held as the integer of least magnitude   *)
(* congruent to it modulo 2^64: the negative integer -n is the address    *)
(* 2^64 - n.  A sum of addresses is then the sum of the integers, and     *)
(* the order of UWord is UWord_less.                                      *)
UWord_less(a, b) == IF (a < 0) = (b < 0) THEN a < b ELSE b < 0

(* a + n is carried past 2^64: the sum panics in a build with overflow    *)
(* checks and wraps in one without                                        *)
UWord_carried(a, n) == a < 0 /\ a + n >= 0

(* A faulty check of the requested base: only its alignment *)
base_refused_if_unaligned(vm, base) == base % VIRTUAL_PAGE_SIZE # 0

(* The two checks of a requested base *)
base_refused(vm, base) ==
    \/ base % VIRTUAL_PAGE_SIZE # 0
    \/ UWord_less(base, vm.next_address)

(* overflow: pages_of or next_address += VIRTUAL_PAGE_SIZE was carried;   *)
(* vm is then what the wrapping build leaves                              *)
VirtualAddressMapper_map(vm, size, allocation, preferred_base) ==
    IF preferred_base.some /\ base_refused(vm, preferred_base.value)
    THEN [ok |-> FALSE, vm |-> vm, addr |-> 0, block |-> 0,
          overflow |-> FALSE]
    ELSE
      LET base_addr == IF preferred_base.some THEN preferred_base.value
                       ELSE vm.next_address
          block_id == vm.blocks.next_id
          blocks2 == IdHashMap_insert(vm.blocks,
                        [id |-> 0, base |-> base_addr, size |-> size,
                         allocation |-> allocation])
          pages == pages_of(base_addr, size)
          keys == {pages[p] : p \in DOMAIN pages}
          mappings2 ==
              [a \in (DOMAIN vm.mappings) \cup keys |->
                  IF a \in keys
                  THEN [block |-> block_id, offset |-> a - base_addr]
                  ELSE vm.mappings[a]]
      IN  [ok |-> TRUE,
           vm |-> [blocks |-> blocks2, mappings |-> mappings2,
                   next_address |->
                       base_addr + Cardinality(DOMAIN pages) * VIRTUAL_PAGE_SIZE],
           addr |-> base_addr, block |-> block_id,
           overflow |->
               UWord_carried(base_addr,
                             Cardinality(DOMAIN pages) * VIRTUAL_PAGE_SIZE)]

VirtualAddressMapper_unmap(vm, id) ==
    IF ~IdHashMap_contains(vm.blocks, id)
    THEN [ok |-> FALSE, vm |-> vm]
    ELSE
      LET block == vm.blocks.map[id]
          pages == pages_of(block.base, block.size)
          keys == {pages[p] : p \in DOMAIN pages}
      IN  [ok |-> TRUE,
           vm |-> [vm EXCEPT
                     !.blocks = IdHashMap_remove(vm.blocks, id),
                     !.mappings = [a \in (DOMAIN vm.mappings) \ keys |->
                                      vm.mappings[a]]]]

(* addr is a word; a value of 2^31 or more has no mapping in the model *)
VirtualAddressMapper_translate(vm, addr) ==
    IF ~IsSmall(addr) THEN [ok |-> FALSE, allocation |-> 0, offset |-> 0]
    ELSE
      LET a == from_le_bytes(addr)
          aligned_addr == round_down_to(a, VIRTUAL_PAGE_SIZE)
          alignment_offset == a - aligned_addr
      IN  IF aligned_addr \notin DOMAIN vm.mappings
          THEN [ok |-> FALSE, allocation |-> 0, offset |-> 0]
          ELSE LET mapping == vm.mappings[aligned_addr]
                   block == vm.blocks.map[mapping.block]
               IN  [ok |-> TRUE, allocation |-> block.allocation,
                    offset |-> mapping.offset + alignment_offset]

---------------------------------------------------------------------------
(* HeapRegions: an id-keyed map of regions and their order by base *)

Free == [used |-> FALSE, allocation |-> 0]

Used(allocation) == [used |-> TRUE, allocation |-> allocation]

is_free(region) == ~region.state.used

is_used(region) == ~is_free(region)

region_end(region) == region.base + region.length

HeapRegions_new(size) ==
    [map |-> IdHashMap_insert(IdHashMap_new,
                [id |-> 0, state |-> Free, base |-> 0, length |-> size]),
     in_order |-> <<1>>]

RegionAt(regions, index) == regions.map.map[regions.in_order[index]]

RECURSIVE SumLengths(_, _)
SumLengths(map, ids) ==
    IF ids = {} THEN 0
    ELSE LET i == CHOOSE x \in ids : TRUE
         IN  map[i].length + SumLengths(map, ids \ {i})

used_bytes(regions) ==
    SumLengths(regions.map.map,
               {i \in DOMAIN regions.map.map : is_used(regions.map.map[i])})

InsertAt(s, index, e) ==
    SubSeq(s, 1, index - 1) \o <<e>> \o SubSeq(s, index, Len(s))

RemoveAt(s, index) == SubSeq(s, 1, index - 1) \o SubSeq(s, index + 1, Len(s))

(* First fit: the first Free region, in order, of length >= total_size.    *)
(* The Error variant of the result is never built by the code.            *)
HeapRegions_allocate(regions, data_size, allocation) ==
    LET total_size == total_region_len(data_size)
        fits == {ix \in 1..Len(regions.in_order) :
                    /\ is_free(RegionAt(regions, ix))
                    /\ RegionAt(regions, ix).length >= total_size}
    IN  IF fits = {}
        THEN [result |-> "OutOfMemory", regions |-> regions, base |-> 0, id |-> 0]
        ELSE
          LET index == CHOOSE ix \in fits : \A other \in fits : ix <= other
              region == RegionAt(regions, index)
              split == region.length > total_size
              map2 == IF split
                      THEN IdHashMap_insert(regions.map,
                              [id |-> 0, state |-> Free,
                               base |-> region.base + total_size,
                               length |-> region.length - total_size])
                      ELSE regions.map
              in_order2 == IF split
                           THEN InsertAt(regions.in_order, index + 1,
                                         regions.map.next_id)
                           ELSE regions.in_order
              map3 == [map2 EXCEPT !.map[region.id] =
                          [region EXCEPT !.length = total_size,
                                         !.state = Used(allocation)]]
          IN  [result |-> "Success",
               regions |-> [map |-> map3, in_order |-> in_order2],
               base |-> region.base, id |-> region.id]

deallocate_island(regions, id) ==
    [regions EXCEPT !.map.map[id].state = Free]

(* A faulty join_free_right: it frees the left region and merges nothing *)
free_left_only(regions, left_index) ==
    deallocate_island(regions, regions.in_order[left_index])

(* Merges the region at left_index + 1 into the one at left_index *)
join_free_right(regions, left_index) ==
    LET right_id == regions.in_order[left_index + 1]
        left_id == regions.in_order[left_index]
        right == regions.map.map[right_id]
        map2 == IdHashMap_remove(regions.map, right_id)
    IN  [map |-> [map2 EXCEPT
                    !.map[left_id].state = Free,
                    !.map[left_id].length = @ + right.length],
         in_order |-> RemoveAt(regions.in_order, left_index + 1)]

HeapRegions_deallocate(regions, id) ==
    IF ~IdHashMap_contains(regions.map, id)
    THEN [ok |-> FALSE, regions |-> regions]
    ELSE
      LET index == CHOOSE ix \in 1..Len(regions.in_order) :
                       regions.in_order[ix] = id
          has_left == index > 1
          has_right == index < Len(regions.in_order)
          left_used == is_used(RegionAt(regions, index - 1))
          right_used == is_used(RegionAt(regions, index + 1))
          result ==
            IF ~has_left /\ ~has_right THEN deallocate_island(regions, id)
            ELSE IF ~has_left /\ has_right
            THEN (IF right_used THEN deallocate_island(regions, id)
                  ELSE join_free_right(regions, index))
            ELSE IF has_left /\ ~has_right
            THEN (IF left_used THEN deallocate_island(regions, id)
                  ELSE join_free_right(regions, index - 1))
            ELSE IF left_used /\ right_used
            THEN deallocate_island(regions, id)
            ELSE IF left_used /\ ~right_used
            THEN join_free_right(regions, index)
            ELSE IF ~left_used /\ right_used
            THEN join_free_right(regions, index - 1)
            ELSE join_free_right(join_free_right(regions, index - 1), index - 1)
      IN  [ok |-> TRUE, regions |-> result]

(* Which of the neighbour cases of deallocate the region id is in: the    *)
(* states of its left and right neighbours, "Empty" where there is none   *)
HeapRegions_neighbours(regions, id) ==
    LET index == CHOOSE ix \in 1..Len(regions.in_order) :
                     regions.in_order[ix] = id
        side(ix) == IF ix < 1 \/ ix > Len(regions.in_order) THEN "Empty"
                    ELSE IF is_used(RegionAt(regions, ix)) THEN "Used"
                    ELSE "Free"
    IN  side(index - 1) \o " " \o side(index + 1)

(* A faulty copy_within: it moves no byte *)
no_copy(heap, src_start, src_end, dest) == heap

(* heap.copy_within(src_start..src_end, dest): a memmove *)
copy_within(heap, src_start, src_end, dest) ==
    SubSeq(heap, 1, dest)
    \o SubSeq(heap, src_start + 1, src_end)
    \o SubSeq(heap, dest + (src_end - src_start) + 1, Len(heap))

(* The loop of compact: state (regions, heap), position index, next_base *)
RECURSIVE compact_loop(_, _, _, _)
compact_loop(regions, heap, index, next_base) ==
    IF index > Len(regions.in_order)
    THEN [regions |-> regions, heap |-> heap, next_base |-> next_base]
    ELSE
      LET region_id == regions.in_order[index]
          region == regions.map.map[region_id]
      IN  IF is_free(region)
          THEN compact_loop(
                  [map |-> IdHashMap_remove(regions.map, region_id),
                   in_order |-> RemoveAt(regions.in_order, index)],
                  heap, index, next_base)
          ELSE compact_loop(
                  [regions EXCEPT !.map.map[region_id].base = next_base],
                  copy_within(heap, region.base, region_end(region), next_base),
                  index + 1, next_base + region.length)

(* A faulty compact: it does not append the Free region *)
compact_without_free(regions, heap) ==
    [regions |-> compact_loop(regions, heap, 1, 0).regions,
     heap |-> compact_loop(regions, heap, 1, 0).heap]

compact(regions, heap) ==
    LET end == region_end(RegionAt(regions, Len(regions.in_order)))
        done == compact_loop(regions, heap, 1, 0)
    IN  IF done.next_base < end
        THEN [regions |->
                [map |-> IdHashMap_insert(done.regions.map,
                            [id |-> 0, state |-> Free,
                             base |-> done.next_base,
                             length |-> end - done.next_base]),
                 in_order |-> Append(done.regions.in_order,
                                     done.regions.map.next_id)],
              heap |-> done.heap]
        ELSE [regions |-> done.regions, heap |-> done.heap]

(* A faulty extend: the regions do not learn of the new bytes *)
extend_nothing(regions, new_size) == regions

(* Requires new_size >= the last region's end (an assert in the code) *)
extend(regions, new_size) ==
    LET last_region_id == regions.in_order[Len(regions.in_order)]
        last_region == regions.map.map[last_region_id]
    IN  IF is_free(last_region)
        THEN [regions EXCEPT !.map.map[last_region_id].length =
                                 new_size - last_region.base]
        ELSE [map |-> IdHashMap_insert(regions.map,
                         [id |-> 0, state |-> Free,
                          base |-> region_end(last_region),
                          length |-> new_size - region_end(last_region)]),
              in_order |-> Append(regions.in_order, regions.map.next_id)]

---------------------------------------------------------------------------
(* Memory: virtual_mapper, regions, allocations, heap *)

(* Heap::new and Heap::resize hand out bytes the allocator never wrote:   *)
(* their content is any byte pattern, here one fill byte per call.        *)
Heap_new(size, fill) == [i \in 1..size |-> fill]

Heap_resize(heap, new_size, fill) ==
    SubSeq(heap, 1, Min(Len(heap), new_size))
    \o [i \in 1..(new_size - Len(heap)) |-> fill]

Memory_new(fill) ==
    [virtual_mapper |-> VirtualAddressMapper_new,
     allocations |-> IdHashMap_new,
     regions |-> HeapRegions_new(INITIAL_MEMORY_SIZE),
     heap |-> Heap_new(INITIAL_MEMORY_SIZE, fill)]

data_end(allocation) == allocation.start + allocation.data_length

bitfield_start(allocation) == data_end(allocation)

bitfield_end(allocation) ==
    bitfield_start(allocation) + bitfield_len(allocation.data_length)

NoAllocation ==
    [id |-> 0, start |-> 0, data_length |-> 0, is_collectible |-> FALSE,
     virtual_block |-> 0, region |-> 0]

ensure_aligned(addr) == addr[1] % WORD_BYTE_SIZE = 0

addr_to_allocation(mem, addr) ==
    The({ IF ~t.ok THEN [ok |-> FALSE, allocation |-> NoAllocation, offset |-> 0]
          ELSE LET allocation == mem.allocations.map[t.allocation]
               IN  IF t.offset >= allocation.data_length
                   THEN [ok |-> FALSE, allocation |-> NoAllocation, offset |-> 0]
                   ELSE [ok |-> TRUE, allocation |-> allocation,
                         offset |-> t.offset]
        : t \in {VirtualAddressMapper_translate(mem.virtual_mapper, addr)} })

(* A faulty addr_to_indices: it does not compare size with what is left *)
addr_to_indices_unbounded(mem, addr, size) ==
    The({ IF ~r.ok THEN [ok |-> FALSE, start |-> 0, end |-> 0]
          ELSE [ok |-> TRUE, start |-> r.allocation.start + r.offset,
                end |-> r.allocation.start + r.offset + size]
        : r \in {addr_to_allocation(mem, addr)} })

addr_to_indices(mem, addr, size) ==
    The({ IF ~r.ok THEN [ok |-> FALSE, start |-> 0, end |-> 0]
          ELSE IF r.allocation.data_length - r.offset < size
          THEN [ok |-> FALSE, start |-> 0, end |-> 0]
          ELSE [ok |-> TRUE, start |-> r.allocation.start + r.offset,
                end |-> r.allocation.start + r.offset + size]
        : r \in {addr_to_allocation(mem, addr)} })

(* heap[start..end] *)
Slice(heap, start, end) == SubSeq(heap, start + 1, end)

Memory_get(mem, addr, size) ==
    The({ IF ~r.ok THEN [ok |-> FALSE, data |-> <<>>]
          ELSE [ok |-> TRUE, data |-> Slice(mem.heap, r.start, r.end)]
        : r \in {addr_to_indices(mem, addr, size)} })

Memory_set(mem, addr, data) ==
    The({ IF ~r.ok THEN [ok |-> FALSE, mem |-> mem]
          ELSE [ok |-> TRUE,
                mem |-> [mem EXCEPT !.heap =
                            SubSeq(@, 1, r.start) \o data
                            \o SubSeq(@, r.end + 1, Len(@))]]
        : r \in {addr_to_indices(mem, addr, Len(data))} })

get_word(mem, addr) ==
    IF ~ensure_aligned(addr) THEN [ok |-> FALSE, value |-> to_le_bytes(0)]
    ELSE The({ IF ~r.ok THEN [ok |-> FALSE, value |-> to_le_bytes(0)]
               ELSE [ok |-> TRUE, value |-> r.data]
             : r \in {Memory_get(mem, addr, WORD_BYTE_SIZE)} })

set_word(mem, addr, value) ==
    IF ~ensure_aligned(addr) THEN [ok |-> FALSE, mem |-> mem]
    ELSE Memory_set(mem, addr, value)

addr_to_reference_indices(mem, addr) ==
    IF addr[1] % WORD_BYTE_SIZE # 0
    THEN [ok |-> FALSE, start |-> 0, end |-> 0, offset |-> 0]
    ELSE The({ IF ~r.ok
               THEN [ok |-> FALSE, start |-> 0, end |-> 0, offset |-> 0]
               ELSE [ok |-> TRUE,
                     start |-> bitfield_start(r.allocation),
                     end |-> bitfield_end(r.allocation),
                     offset |-> r.offset \div WORD_BYTE_SIZE]
             : r \in {addr_to_allocation(mem, addr)} })

(* Bit `offset` of a byte slice viewed as BitSlice<Lsb0, u8> *)
Pow2(n) == CASE n = 0 -> 1 [] n = 1 -> 2 [] n = 2 -> 4 [] n = 3 -> 8
             [] n = 4 -> 16 [] n = 5 -> 32 [] n = 6 -> 64 [] OTHER -> 128

BitOf(byte, bit) == (byte \div Pow2(bit)) % 2 = 1

WithBit(byte, bit, b) ==
    IF BitOf(byte, bit) = b THEN byte
    ELSE IF b THEN byte + Pow2(bit) ELSE byte - Pow2(bit)

is_reference(mem, addr) ==
    The({ IF ~r.ok THEN [ok |-> FALSE, value |-> FALSE]
          ELSE [ok |-> TRUE,
                value |-> BitOf(mem.heap[r.start + (r.offset \div 8) + 1],
                                r.offset % 8)]
        : r \in {addr_to_reference_indices(mem, addr)} })

(* A faulty set_reference: it leaves the tag bit as it was *)
set_reference_stale(mem, addr, flag) ==
    [ok |-> addr_to_reference_indices(mem, addr).ok, mem |-> mem]

set_reference(mem, addr, flag) ==
    The({ IF ~r.ok THEN [ok |-> FALSE, mem |-> mem]
          ELSE [ok |-> TRUE,
                mem |-> [mem EXCEPT !.heap[r.start + (r.offset \div 8) + 1] =
                            WithBit(@, r.offset % 8, flag)]]
        : r \in {addr_to_reference_indices(mem, addr)} })

get_data_word(mem, addr) ==
    The({ IF ~v.ok \/ ~r.ok
          THEN [ok |-> FALSE, word |-> DataWord(to_le_bytes(0), FALSE)]
          ELSE [ok |-> TRUE, word |-> DataWord(v.value, r.value)]
        : v \in {get_word(mem, addr)}, r \in {is_reference(mem, addr)} })

set_data_word(mem, addr, word) ==
    The({ IF ~s.ok THEN [ok |-> FALSE, mem |-> mem]
          ELSE set_reference(s.mem, addr, word.is_reference)
        : s \in {set_word(mem, addr, word.value)} })

Memory_deallocate(mem, id) ==
    IF ~IdHashMap_contains(mem.allocations, id) THEN [ok |-> FALSE, mem |-> mem]
    ELSE
      LET allocation == mem.allocations.map[id]
          mem1 == [mem EXCEPT !.allocations = IdHashMap_remove(@, id)]
      IN  The({ IF ~u.ok THEN [ok |-> FALSE, mem |-> mem1]
                ELSE The({ IF ~d.ok
                           THEN [ok |-> FALSE,
                                 mem |-> [mem1 EXCEPT !.virtual_mapper = u.vm]]
                           ELSE [ok |-> TRUE,
                                 mem |-> [mem1 EXCEPT !.virtual_mapper = u.vm,
                                                      !.regions = d.regions]]
                         : d \in {HeapRegions_deallocate(mem.regions,
                                                         allocation.region)} })
              : u \in {VirtualAddressMapper_unmap(mem.virtual_mapper,
                                                  allocation.virtual_block)} })

---------------------------------------------------------------------------
(* force_garbage_collection *)

(* The ids of a set in ascending order.  The code walks hash maps and     *)
(* sets in an unspecified order; the state a collection ends in does not  *)
(* depend on it, because compact drops every Free region afterwards.      *)
RECURSIVE Ascending(_)
Ascending(ids) ==
    IF ids = {} THEN <<>>
    ELSE LET m == CHOOSE x \in ids : \A y \in ids : x <= y
         IN  <<m>> \o Ascending(ids \ {m})

get_bitfield(mem, allocation) ==
    Slice(mem.heap, bitfield_start(allocation), bitfield_end(allocation))

(* A faulty tagged_words: every payload word, tagged or not (a           *)
(* conservative scan instead of a precise one)                            *)
all_words(mem, allocation, bitfield, i) ==
    [k \in 1..(allocation.data_length \div WORD_BYTE_SIZE) |->
        Slice(mem.heap, allocation.start + (k - 1) * WORD_BYTE_SIZE,
              allocation.start + k * WORD_BYTE_SIZE)]

(* The words stored at the set bits of the bitfield, lowest bit first *)
RECURSIVE tagged_words(_, _, _, _)
tagged_words(mem, allocation, bitfield, i) ==
    IF i >= 8 * Len(bitfield) THEN <<>>
    ELSE LET x == allocation.start + i * WORD_BYTE_SIZE
             rest == tagged_words(mem, allocation, bitfield, i + 1)
         IN  IF BitOf(bitfield[(i \div 8) + 1], i % 8)
             THEN <<Slice(mem.heap, x, x + WORD_BYTE_SIZE)>> \o rest
             ELSE rest

(* The state of the worklist loop; scanned is the allocation whose        *)
(* bitfield and payload the latest iteration read, or 0                   *)
Marking(next, visited, collectible, scanned) ==
    [next |-> next, visited |-> visited, collectible |-> collectible,
     scanned |-> scanned]

(* A faulty iteration: it scans an allocation it has visited before *)
mark_step_again(mem, next, visited, collectible) ==
    The({ IF ~r.ok
          THEN Marking(SubSeq(next, 1, Len(next) - 1), visited, collectible,
                       0)
          ELSE Marking(SubSeq(next, 1, Len(next) - 1)
                       \o tagged_words(mem, r.allocation,
                                       get_bitfield(mem, r.allocation), 0),
                       visited \cup {r.allocation.id},
                       collectible \ {r.allocation.id}, r.allocation.id)
        : r \in {addr_to_allocation(mem, next[Len(next)])} })

(* One iteration of the worklist loop: next is a stack, popped from its   *)
(* end                                                                    *)
mark_step(mem, next, visited, collectible) ==
    The({ IF ~r.ok \/ r.allocation.id \in visited
          THEN Marking(SubSeq(next, 1, Len(next) - 1), visited, collectible,
                       0)
          ELSE Marking(SubSeq(next, 1, Len(next) - 1)
                       \o tagged_words(mem, r.allocation,
                                       get_bitfield(mem, r.allocation), 0),
                       visited \cup {r.allocation.id},
                       collectible \ {r.allocation.id}, r.allocation.id)
        : r \in {addr_to_allocation(mem, next[Len(next)])} })

(* The worklist loop *)
RECURSIVE mark(_, _, _, _)
mark(mem, next, visited, collectible) ==
    IF next = <<>> THEN [visited |-> visited, collectible |-> collectible]
    ELSE The({ mark(mem, s.next, s.visited, s.collectible)
             : s \in {mark_step(mem, next, visited, collectible)} })

RECURSIVE deallocate_all(_, _)
deallocate_all(mem, ids) ==
    IF ids = <<>> THEN [ok |-> TRUE, mem |-> mem]
    ELSE The({ IF ~d.ok THEN d ELSE deallocate_all(d.mem, Tail(ids))
             : d \in {Memory_deallocate(mem, Head(ids))} })

(* The seeds of the worklist: the tagged roots, then the virtual base of  *)
(* every allocation that is not collectible                               *)
RECURSIVE tagged_roots(_)
tagged_roots(gc_roots) ==
    IF gc_roots = <<>> THEN <<>>
    ELSE IF Head(gc_roots).is_reference
    THEN <<Head(gc_roots).value>> \o tagged_roots(Tail(gc_roots))
    ELSE tagged_roots(Tail(gc_roots))

pinned_ids(mem) ==
    {id \in DOMAIN mem.allocations.map :
        ~mem.allocations.map[id].is_collectible}

(* The bases pushed for the allocations pinned, in the order given *)
pinned_bases(mem, pinned) ==
    [k \in 1..Len(pinned) |->
        to_le_bytes(mem.virtual_mapper.blocks.map[
            mem.allocations.map[pinned[k]].virtual_block].base)]

gc_seeds(mem, gc_roots) ==
    tagged_roots(gc_roots) \o pinned_bases(mem, Ascending(pinned_ids(mem)))

(* A faulty collection: the allocations keep the starts they had *)
stale_starts(mem) == mem

fix_starts(mem) ==
    [mem EXCEPT !.allocations.map =
        [id \in DOMAIN mem.allocations.map |->
            [mem.allocations.map[id] EXCEPT !.start =
                mem.regions.map.map[mem.allocations.map[id].region].base]]]

(* After the loop: deallocate what is left in collectible, compact, and   *)
(* give every allocation the base of its region                           *)
sweep(mem, collectible) ==
    The({ IF ~swept.ok THEN [ok |-> FALSE, mem |-> swept.mem]
          ELSE The({ [ok |-> TRUE,
                      mem |-> fix_starts([swept.mem EXCEPT
                                  !.regions = compacted.regions,
                                  !.heap = compacted.heap])]
                   : compacted \in {compact(swept.mem.regions,
                                            swept.mem.heap)} })
        : swept \in {deallocate_all(mem, Ascending(collectible))} })

(* A faulty candidate set: one collectible allocation per collection *)
collectible_ids_least(mem) ==
    {id \in DOMAIN mem.allocations.map :
        /\ mem.allocations.map[id].is_collectible
        /\ \A other \in DOMAIN mem.allocations.map :
              mem.allocations.map[other].is_collectible => id <= other}

collectible_ids(mem) ==
    {id \in DOMAIN mem.allocations.map :
        mem.allocations.map[id].is_collectible}

force_garbage_collection(mem, gc_roots) ==
    sweep(mem, mark(mem, gc_seeds(mem, gc_roots), {},
                    collectible_ids(mem)).collectible)

---------------------------------------------------------------------------
(* Memory::allocate *)

(* A faulty grown_size: it never doubles *)
same_size(new_heap_size, minimum_required) == new_heap_size

RECURSIVE grown_size(_, _)
grown_size(new_heap_size, minimum_required) ==
    IF new_heap_size < minimum_required
    THEN grown_size(Min(new_heap_size * 2, MAX_MEMORY_SIZE), minimum_required)
    ELSE new_heap_size

region_taken(path, mem, a) ==
    [ok |-> TRUE, path |-> path, start |-> a.base, region |-> a.id,
     mem |-> [mem EXCEPT !.regions = a.regions]]

region_refused(path, mem) ==
    [ok |-> FALSE, path |-> path, start |-> 0, region |-> 0, mem |-> mem]

(* The heap doubled until it holds minimum_required, the regions extended *)
grow(mem, minimum_required, fill) ==
    The({ [mem EXCEPT !.heap = Heap_resize(@, new_heap_size, fill),
                      !.regions = extend(@, new_heap_size)]
        : new_heap_size \in {grown_size(Len(mem.heap), minimum_required)} })

(* The third attempt, on the grown heap *)
allocate_after_growth(grown, data_size, allocation_id) ==
    The({ IF third.result = "Success"
          THEN region_taken("after_growth", grown, third)
          ELSE region_refused("still_full", grown)
        : third \in {HeapRegions_allocate(grown.regions, data_size,
                                          allocation_id)} })

(* The second attempt, on the result gc of the collection *)
allocate_after_gc(gc, data_size, allocation_id, fill) ==
    IF ~gc.ok THEN region_refused("gc_error", gc.mem)
    ELSE
      The({ IF second.result = "Success"
            THEN region_taken("after_gc", gc.mem, second)
            ELSE IF minimum_required > MAX_MEMORY_SIZE
            THEN region_refused("over_max", gc.mem)
            ELSE allocate_after_growth(grow(gc.mem, minimum_required, fill),
                                       data_size, allocation_id)
          : second \in {HeapRegions_allocate(gc.mem.regions, data_size,
                                             allocation_id)},
            minimum_required \in
                {used_bytes(gc.mem.regions) + total_region_len(data_size)} })

(* path names the attempt that decided the call: "first", "after_gc",     *)
(* "after_growth", or the failures "gc_error", "over_max", "still_full".  *)
try_allocate_region(mem, data_size, allocation_id, gc_roots, fill) ==
    The({ IF first.result = "Success" THEN region_taken("first", mem, first)
          ELSE allocate_after_gc(force_garbage_collection(mem, gc_roots),
                                 data_size, allocation_id, fill)
        : first \in {HeapRegions_allocate(mem.regions, data_size,
                                          allocation_id)} })

(* A faulty allocate: the bitfield keeps the bytes the region held *)
stale_bitfield(heap, allocation) == heap

(* for x in &mut heap[bitfield_start..bitfield_end] { *x = 0 } *)
zero_bitfield(heap, allocation) ==
    SubSeq(heap, 1, bitfield_start(allocation))
    \o [i \in 1..bitfield_len(allocation.data_length) |-> 0]
    \o SubSeq(heap, bitfield_end(allocation) + 1, Len(heap))

(* error: "" on success, "OutOfMemory" when no region could be had,       *)
(* "BadBase" when the mapper rejected preferred_base                      *)
Memory_allocate(mem, data_size, is_collectible, gc_roots, preferred_base, fill) ==
    The({ IF ~r.ok
          THEN [ok |-> FALSE, error |-> "OutOfMemory", path |-> r.path,
                mem |-> r.mem, addr |-> 0]
          ELSE
            The({ IF ~m.ok
                  THEN [ok |-> FALSE, error |-> "BadBase", path |-> r.path,
                        mem |-> r.mem, addr |-> 0]
                  ELSE
                    LET allocation ==
                          [id |-> mem.allocations.next_id, start |-> r.start,
                           data_length |-> data_size,
                           is_collectible |-> is_collectible,
                           region |-> r.region, virtual_block |-> m.block]
                    IN  [ok |-> TRUE, error |-> "", path |-> r.path,
                         addr |-> m.addr,
                         mem |-> [r.mem EXCEPT
                            !.virtual_mapper = m.vm,
                            !.allocations = IdHashMap_insert(@, allocation),
                            !.heap = zero_bitfield(@, allocation)]]
                : m \in {VirtualAddressMapper_map(r.mem.virtual_mapper,
                            data_size, mem.allocations.next_id,
                            preferred_base)} })
        : r \in {try_allocate_region(mem, data_size, mem.allocations.next_id,
                                     gc_roots, fill)} })

---------------------------------------------------------------------------
(* Interpreter: CpuState and the stack (interpreter/mod.rs) *)

STACK_SIZE == WORD_BYTE_SIZE * StackWords

CpuState_default ==
    [registers |-> [i \in 0..(REGISTER_NUM - 1) |->
                       DataWord(to_le_bytes(0), FALSE)],
     stack_pointer |-> to_le_bytes(0),
     instruction_pointer |-> to_le_bytes(0),
     carry_flag |-> FALSE,
     zero_flag |-> FALSE]

(* A faulty push_stack moves the stack pointer before it looks at the    *)
(* result of the write.                                                   *)
(* Both return the interpreter's two parts; on an error of push_stack     *)
(* nothing changed, on an error of pop_stack the stack pointer has moved. *)
push_stack_moving(cpu, mem, value) ==
    The({ [ok |-> s.ok, mem |-> s.mem,
           cpu |-> [cpu EXCEPT !.stack_pointer =
                       wrapping_sub(@, WORD_BYTE_SIZE)]]
        : s \in {set_data_word(mem, cpu.stack_pointer, value)} })

push_stack(cpu, mem, value) ==
    The({ IF ~s.ok THEN [ok |-> FALSE, cpu |-> cpu, mem |-> mem]
          ELSE [ok |-> TRUE, mem |-> s.mem,
                cpu |-> [cpu EXCEPT !.stack_pointer =
                            wrapping_sub(@, WORD_BYTE_SIZE)]]
        : s \in {set_data_word(mem, cpu.stack_pointer, value)} })

(* A faulty pop_stack: it reads at the stack pointer without moving it *)
pop_stack_in_place(cpu, mem) ==
    [ok |-> get_data_word(mem, cpu.stack_pointer).ok, cpu |-> cpu,
     word |-> get_data_word(mem, cpu.stack_pointer).word]

pop_stack(cpu, mem) ==
    The({ The({ [ok |-> g.ok, cpu |-> cpu2, word |-> g.word]
              : g \in {get_data_word(mem, cpu2.stack_pointer)} })
        : cpu2 \in {[cpu EXCEPT !.stack_pointer =
                        wrapping_add(@, WORD_BYTE_SIZE)]} })

---------------------------------------------------------------------------
(* The loader (interpreter/mod.rs, run): the program image at virtual     *)
(* address 0, then the stack.  Both are pinned (not collectible).         *)

ProgramBytes == 8

aligned_len(len) == divide_round_up(len, WORD_BYTE_SIZE) * WORD_BYTE_SIZE

run_load(fill) ==
    The({ The({ [ok |-> program.ok /\ program.addr = 0 /\ stack.ok,
                 mem |-> stack.mem,
                 cpu |-> [CpuState_default EXCEPT !.stack_pointer =
                             wrapping_sub(wrapping_add(to_le_bytes(stack.addr),
                                                       STACK_SIZE),
                                          WORD_BYTE_SIZE)]]
              : stack \in {Memory_allocate(program.mem, STACK_SIZE, FALSE,
                                           <<>>, None, fill)} })
        : program \in {Memory_allocate(Memory_new(fill),
                                       aligned_len(ProgramBytes), FALSE,
                                       <<>>, Some(0), fill)} })

(* Interpreter::read / write / write_with_flags for a register operand *)
write_register(cpu, i, value) == [cpu EXCEPT !.registers[i] = value]

write_with_flags(cpu, i, value) ==
    [write_register(cpu, i, value) EXCEPT
        !.carry_flag = FALSE,
        !.zero_flag = (value.value = to_le_bytes(0))]

---------------------------------------------------------------------------
(* The state machines.  last records the latest call: the inputs that the *)
(* state does not show, and the result.                                   *)

Zero == to_le_bytes(0)

NoLast ==
    [op |-> "new", ok |-> TRUE, error |-> "", path |-> "", size |-> 0,
     base |-> None, addr |-> Zero, word |-> DataWord(Zero, FALSE),
     roots |-> <<>>, collected |-> {}, moved |-> FALSE]

FillBytes == {0, 255}

Sizes == {0, 16}

PreferredBases == {None, Some(8)}

RootLists ==
    {<<>>,
     <<DataWord(to_le_bytes(0), TRUE)>>,
     <<DataWord(to_le_bytes(0), FALSE),
       DataWord(to_le_bytes(VIRTUAL_PAGE_SIZE), TRUE)>>}

DataWords ==
    {DataWord(to_le_bytes(VIRTUAL_PAGE_SIZE), TRUE),
     DataWord(to_le_bytes(VIRTUAL_PAGE_SIZE), FALSE)}

Addresses == {to_le_bytes(0), to_le_bytes(VIRTUAL_PAGE_SIZE)}

(* TRUE iff allocate cannot take its region from the free list as it is   *)
(* and so reads gc_roots (and, if it grows the heap, gets fresh bytes)    *)
NeedsCollection(mem, data_size) ==
    HeapRegions_allocate(mem.regions, data_size, 0).result = "OutOfMemory"

(* TRUE iff VirtualAddressMapper::map returns an error for this base *)
RejectsBase(mem, preferred_base) ==
    ~VirtualAddressMapper_map(mem.virtual_mapper, 0, 0, preferred_base).ok

Surviving(before, after) ==
    (DOMAIN before.allocations.map) \cap (DOMAIN after.allocations.map)

Collected(before, after) ==
    (DOMAIN before.allocations.map) \ (DOMAIN after.allocations.map)

Moved(before, after) ==
    \E id \in Surviving(before, after) :
        before.allocations.map[id].start # after.allocations.map[id].start

(* Memory, driven through its public functions from Memory::new *)

Init ==
    /\ \E fill \in FillBytes : memory = Memory_new(fill)
    /\ cpu_state = CpuState_default
    /\ last = NoLast
    /\ ops = 0

Allocate(data_size, is_collectible, gc_roots, preferred_base, fill) ==
    /\ ops < MaxOps
    /\ \E r \in {Memory_allocate(memory, data_size, is_collectible, gc_roots,
                                  preferred_base, fill)} :
           /\ memory' = r.mem
           /\ last' = [NoLast EXCEPT
                         !.op = "allocate", !.ok = r.ok, !.error = r.error,
                         !.path = r.path, !.size = data_size,
                         !.base = preferred_base,
                         !.addr = to_le_bytes(r.addr),
                         !.roots = gc_roots,
                         !.collected = Collected(memory, r.mem),
                         !.moved = Moved(memory, r.mem)]
    /\ ops' = ops + 1
    /\ UNCHANGED cpu_state

ForceGarbageCollection(gc_roots) ==
    /\ ops < MaxOps
    /\ \E r \in {force_garbage_collection(memory, gc_roots)} :
           /\ memory' = r.mem
           /\ last' = [NoLast EXCEPT
                         !.op = "gc", !.ok = r.ok, !.roots = gc_roots,
                         !.collected = Collected(memory, r.mem),
                         !.moved = Moved(memory, r.mem)]
    /\ ops' = ops + 1
    /\ UNCHANGED cpu_state

(* A call that returns an error has changed nothing: it is no step *)
SetDataWord(addr, value) ==
    /\ ops < MaxOps
    /\ \E r \in {set_data_word(memory, addr, value)} :
           /\ r.ok
           /\ memory' = r.mem
           /\ last' = [NoLast EXCEPT
                         !.op = "set_data_word", !.addr = addr, !.word = value]
    /\ ops' = ops + 1
    /\ UNCHANGED cpu_state

(* The roots and the fresh bytes are read only by a call that collects,   *)
(* is_collectible only by a call whose preferred_base the mapper accepts  *)
Next ==
    \/ \E data_size \in Sizes, preferred_base \in PreferredBases :
          \E is_collectible \in IF RejectsBase(memory, preferred_base)
                                THEN {FALSE} ELSE BOOLEAN,
             gc_roots \in IF NeedsCollection(memory, data_size)
                          THEN RootLists ELSE {<<>>},
             fill \in IF NeedsCollection(memory, data_size)
                      THEN FillBytes ELSE {0} :
             Allocate(data_size, is_collectible, gc_roots, preferred_base, fill)
    \/ \E gc_roots \in RootLists : ForceGarbageCollection(gc_roots)
    \/ \E addr \in Addresses, value \in DataWords : SetDataWord(addr, value)

Spec == Init /\ [][Next]_vars

---------------------------------------------------------------------------
(* HeapRegions on its own, driven through allocate, deallocate, extend    *)
(* and compact from HeapRegions::new.  memory.regions and memory.heap are *)
(* the region list and the buffer compact moves; deallocate is given the  *)
(* id of a Used region, as Memory::deallocate gives it, and extend a size *)
(* its assertion admits.                                                  *)

(* 31 bytes and their bitfield fill the initial heap *)
RegionSizes == {0, 8, 16, INITIAL_MEMORY_SIZE - 1}

RegionAllocate(data_size) ==
    /\ ops < MaxOps
    /\ \E r \in {HeapRegions_allocate(memory.regions, data_size, ops + 1)} :
           /\ memory' = [memory EXCEPT !.regions = r.regions]
           /\ last' = [NoLast EXCEPT
                         !.op = "region_allocate",
                         !.ok = (r.result = "Success"), !.size = data_size]
    /\ ops' = ops + 1
    /\ UNCHANGED cpu_state

RegionDeallocate(id) ==
    /\ ops < MaxOps
    /\ id \in DOMAIN memory.regions.map.map
    /\ is_used(memory.regions.map.map[id])
    /\ \E r \in {HeapRegions_deallocate(memory.regions, id)} :
           /\ memory' = [memory EXCEPT !.regions = r.regions]
           /\ last' = [NoLast EXCEPT
                         !.op = "region_deallocate", !.ok = r.ok,
                         !.path = HeapRegions_neighbours(memory.regions, id)]
    /\ ops' = ops + 1
    /\ UNCHANGED cpu_state

RegionExtend(new_size, fill) ==
    /\ ops < MaxOps
    /\ new_size >= region_end(RegionAt(memory.regions,
                                        Len(memory.regions.in_order)))
    /\ memory' = [memory EXCEPT
                    !.heap = Heap_resize(@, new_size, fill),
                    !.regions = extend(@, new_size)]
    /\ last' = [NoLast EXCEPT !.op = "region_extend", !.size = new_size]
    /\ ops' = ops + 1
    /\ UNCHANGED cpu_state

RegionCompact ==
    /\ ops < MaxOps
    /\ \E r \in {compact(memory.regions, memory.heap)} :
           /\ memory' = [memory EXCEPT !.regions = r.regions, !.heap = r.heap]
           /\ last' = [NoLast EXCEPT
                         !.op = "region_compact",
                         !.moved =
                            \E id \in DOMAIN r.regions.map.map :
                               /\ is_used(r.regions.map.map[id])
                               /\ r.regions.map.map[id].base
                                  # memory.regions.map.map[id].base]
    /\ ops' = ops + 1
    /\ UNCHANGED cpu_state

NextRegions ==
    \/ \E data_size \in RegionSizes : RegionAllocate(data_size)
    \/ \E id \in 1..(memory.regions.map.next_id - 1) : RegionDeallocate(id)
    \/ \E new_size \in {Len(memory.heap),
                        Min(2 * Len(memory.heap), MAX_MEMORY_SIZE)} :
          RegionExtend(new_size, 0)
    \/ RegionCompact

SpecRegions == Init /\ [][NextRegions]_vars

---------------------------------------------------------------------------
(* The interpreter after the loader, executing decoded instructions:      *)
(* the arms Move, Reference, Push and Pop of Interpreter::step, with an   *)
(* immediate or a register as source and a register as destination.  The *)
(* opcode is what Opcode::decode returned; decoding it, which advances    *)
(* the instruction pointer, is not part of these actions.  A step that    *)
(* returns an error ends run, so nothing follows it.                      *)

Immediates == {to_le_bytes(0), to_le_bytes(VIRTUAL_PAGE_SIZE)}

RegisterOperands == {0, 1}

InitCpu ==
    /\ \E fill \in FillBytes :
          \E r \in {run_load(fill)} :
             /\ r.ok
             /\ memory = r.mem
             /\ cpu_state = r.cpu
    /\ last = NoLast
    /\ ops = 0

Step_Move(value, i) ==
    /\ ops < MaxOps /\ last.ok
    /\ cpu_state' = write_with_flags(cpu_state, i, DataWord(value, FALSE))
    /\ last' = [NoLast EXCEPT !.op = "move"]
    /\ ops' = ops + 1
    /\ UNCHANGED memory

Step_Reference(i) ==
    /\ ops < MaxOps /\ last.ok
    /\ cpu_state' = write_register(cpu_state, i,
                        [cpu_state.registers[i] EXCEPT !.is_reference = TRUE])
    /\ last' = [NoLast EXCEPT !.op = "reference"]
    /\ ops' = ops + 1
    /\ UNCHANGED memory

Step_Push(i) ==
    /\ ops < MaxOps /\ last.ok
    /\ \E r \in {push_stack(cpu_state, memory, cpu_state.registers[i])} :
           /\ memory' = r.mem
           /\ cpu_state' = r.cpu
           /\ last' = [NoLast EXCEPT
                         !.op = "push", !.ok = r.ok,
                         !.addr = cpu_state.stack_pointer,
                         !.word = cpu_state.registers[i]]
    /\ ops' = ops + 1

Step_Pop(i) ==
    /\ ops < MaxOps /\ last.ok
    /\ \E r \in {pop_stack(cpu_state, memory)} :
           /\ cpu_state' = IF r.ok THEN write_register(r.cpu, i, r.word)
                           ELSE r.cpu
           /\ last' = [NoLast EXCEPT
                         !.op = "pop", !.ok = r.ok,
                         !.addr = cpu_state.stack_pointer,
                         !.word = r.word]
    /\ ops' = ops + 1
    /\ UNCHANGED memory

NextCpu ==
    \/ \E value \in Immediates, i \in RegisterOperands : Step_Move(value, i)
    \/ \E i \in RegisterOperands : Step_Reference(i)
    \/ \E i \in RegisterOperands : Step_Push(i)
    \/ \E i \in RegisterOperands : Step_Pop(i)

SpecCpu == InitCpu /\ [][NextCpu]_vars

---------------------------------------------------------------------------
(* The notions the properties are stated in.  They are read off the heap   *)
(* and the tables directly, not through the functions under test.         *)

(* The virtual base allocate returned for the allocation id *)
virtual_base(mem, id) ==
    mem.virtual_mapper.blocks.map[mem.allocations.map[id].virtual_block].base

(* The word v, used as a pointer, refers to the allocation id: it is the  *)
(* allocation's virtual base or a virtual address of one of its bytes     *)
Refers(mem, v, id) ==
    /\ IsSmall(v)
    /\ \/ from_le_bytes(v) = virtual_base(mem, id)
       \/ /\ virtual_base(mem, id) <= from_le_bytes(v)
          /\ from_le_bytes(v) < virtual_base(mem, id)
                                  + mem.allocations.map[id].data_length

(* The payload of the allocation id as tagged words *)
PayloadWords(mem, id) ==
    LET a == mem.allocations.map[id]
    IN  {DataWord(SubSeq(mem.heap, a.start + WORD_BYTE_SIZE * i + 1,
                         a.start + WORD_BYTE_SIZE * (i + 1)),
                  BitOf(mem.heap[a.start + a.data_length + (i \div 8) + 1],
                        i % 8)) :
            i \in 0..((a.data_length \div WORD_BYTE_SIZE) - 1)}

(* The allocations some tagged word of the set refers to *)
Targets(mem, words) ==
    {id \in DOMAIN mem.allocations.map :
        \E w \in words : w.is_reference /\ Refers(mem, w.value, id)}

(* ids and all that is reached from them through tagged payload words *)
RECURSIVE Closure(_, _)
Closure(mem, ids) ==
    LET more == UNION {Targets(mem, PayloadWords(mem, id)) : id \in ids}
    IN  IF more \subseteq ids THEN ids ELSE Closure(mem, ids \cup more)

RootWords(gc_roots) == {gc_roots[k] : k \in DOMAIN gc_roots}

ReachableFromRoots(mem, gc_roots) ==
    Closure(mem, Targets(mem, RootWords(gc_roots)))

Pinned(mem) ==
    {id \in DOMAIN mem.allocations.map : ~mem.allocations.map[id].is_collectible}

Live(mem, gc_roots) ==
    Closure(mem, Targets(mem, RootWords(gc_roots)) \cup Pinned(mem))

(* The call that led to the state ran force_garbage_collection(rec.roots): *)
(* the call itself, or an allocate that found no free region at first     *)
CollectionRan(rec) ==
    \/ rec.op = "gc"
    \/ rec.op = "allocate" /\ rec.path # "first"

(* The allocation id of the state before is gone in the state after:      *)
(* out of the table, its block unmapped, its region freed                 *)
Gone(before, after, id) ==
    LET a == before.allocations.map[id]
    IN  /\ id \notin DOMAIN after.allocations.map
        /\ a.virtual_block \notin DOMAIN after.virtual_mapper.blocks.map
        /\ \A k \in DOMAIN after.virtual_mapper.mappings :
              after.virtual_mapper.mappings[k].block # a.virtual_block
        /\ ~VirtualAddressMapper_translate(
               after.virtual_mapper, to_le_bytes(virtual_base(before, id))).ok
        /\ \/ a.region \notin DOMAIN after.regions.map.map
           \/ is_free(after.regions.map.map[a.region])

(* Addresses: a base, an unaligned one, second words, one past a 16-byte  *)
(* payload, one beyond 2^32                                               *)
ProbeAddresses ==
    {to_le_bytes(0), to_le_bytes(4), to_le_bytes(WORD_BYTE_SIZE),
     to_le_bytes(2 * WORD_BYTE_SIZE),
     to_le_bytes(VIRTUAL_PAGE_SIZE + WORD_BYTE_SIZE),
     <<0, 0, 0, 0, 1, 0, 0, 0>>}

ProbeWords ==
    {DataWord(to_le_bytes(0), TRUE),
     DataWord(<<1, 2, 3, 4, 5, 6, 7, 128>>, FALSE),
     DataWord(<<255, 255, 255, 255, 255, 255, 255, 255>>, TRUE),
     DataWord(<<255, 255, 255, 255, 255, 255, 255, 255>>, FALSE)}

---------------------------------------------------------------------------
(* C1: after a collection with roots, every allocation that is not        *)
(* collectible or is reached from a tagged root through tagged payload    *)
(* words is still in the table, and its virtual base translates to it.    *)
C1_ReachableSurvive ==
    [][CollectionRan(last') =>
        \A id \in Pinned(memory) \cup ReachableFromRoots(memory, last'.roots) :
            /\ id \in DOMAIN memory'.allocations.map
            /\ VirtualAddressMapper_translate(
                   memory'.virtual_mapper,
                   to_le_bytes(virtual_base(memory, id)))
               = [ok |-> TRUE, allocation |-> id, offset |-> 0]]_vars

(* C2: after a collection with roots, every allocation reached neither    *)
(* from a tagged root nor from a pinned allocation is gone: out of the    *)
(* table, its block unmapped, its region freed.                           *)
C2_UnreachableCollected ==
    [][CollectionRan(last') =>
        \A id \in (DOMAIN memory.allocations.map) \ Live(memory, last'.roots) :
            Gone(memory, memory', id)]_vars

C2_Witness ==
    /\ last.op = "gc"
    /\ last.collected # {}
    /\ \E id \in DOMAIN memory.allocations.map :
          memory.allocations.map[id].is_collectible

(* C3: in every state, for every allocation in the table, a read of       *)
(* data_length bytes at the virtual base allocate returned succeeds.      *)
C3_BaseReadable ==
    \A id \in DOMAIN memory.allocations.map :
        Memory_get(memory, to_le_bytes(virtual_base(memory, id)),
                   memory.allocations.map[id].data_length).ok

(* C4: a collection leaves every payload word of every surviving          *)
(* allocation, read by get_data_word at its virtual address, as it was,   *)
(* value and tag.                                                         *)
C4_PayloadPreserved ==
    [][CollectionRan(last') =>
        \A id \in Surviving(memory, memory') :
            \A i \in 0..((memory.allocations.map[id].data_length
                            \div WORD_BYTE_SIZE) - 1) :
                /\ get_data_word(memory, to_le_bytes(
                       virtual_base(memory, id) + WORD_BYTE_SIZE * i)).ok
                /\ get_data_word(memory', to_le_bytes(
                       virtual_base(memory, id) + WORD_BYTE_SIZE * i))
                   = get_data_word(memory, to_le_bytes(
                       virtual_base(memory, id) + WORD_BYTE_SIZE * i))]_vars

C4_Witness ==
    /\ last.op = "gc"
    /\ last.moved
    /\ \E id \in DOMAIN memory.allocations.map :
          get_data_word(memory, to_le_bytes(virtual_base(memory, id))).word
          = DataWord(to_le_bytes(VIRTUAL_PAGE_SIZE), TRUE)

(* C5: in every state the ordered region list partitions the heap: the    *)
(* first base is 0, each base is the previous region's end, the bases     *)
(* ascend strictly, the last end is the heap's length.                    *)
C5_RegionsPartition ==
    LET n == Len(memory.regions.in_order)
    IN  /\ n >= 1
        /\ RegionAt(memory.regions, 1).base = 0
        /\ \A k \in 1..(n - 1) :
              /\ RegionAt(memory.regions, k + 1).base
                 = region_end(RegionAt(memory.regions, k))
              /\ RegionAt(memory.regions, k).base
                 < RegionAt(memory.regions, k + 1).base
        /\ region_end(RegionAt(memory.regions, n)) = Len(memory.heap)

(* C6: in every state every Used region names an allocation of the table, *)
(* no two Used regions name the same one, and every allocation of the     *)
(* table is named by exactly one Used region and one virtual block.       *)
C6_RegionsMatchAllocations ==
    LET regions == memory.regions.map.map
        used == {r \in DOMAIN regions : is_used(regions[r])}
        blocks == memory.virtual_mapper.blocks.map
    IN  /\ \A r \in used :
              regions[r].state.allocation \in DOMAIN memory.allocations.map
        /\ \A r1, r2 \in used :
              regions[r1].state.allocation = regions[r2].state.allocation
              => r1 = r2
        /\ \A id \in DOMAIN memory.allocations.map :
              /\ Cardinality({r \in used : regions[r].state.allocation = id}) = 1
              /\ Cardinality({b \in DOMAIN blocks : blocks[b].allocation = id}) = 1

C8_SetGetRoundTrip ==
    \A a \in ProbeAddresses, w \in ProbeWords :
        \E s \in {set_data_word(memory, a, w)} :
            IF s.ok
            THEN get_data_word(s.mem, a) = [ok |-> TRUE, word |-> w]
            ELSE s.mem = memory /\ ~get_data_word(memory, a).ok

C8_Witness ==
    /\ last.op = "set_data_word"
    /\ last.ok
    /\ last.word.is_reference
    /\ get_data_word(memory, last.addr) = [ok |-> TRUE, word |-> last.word]

(* C9: a push of a word that succeeds, followed by a pop, yields that     *)
(* word, value and tag, and the stack pointer the push started from.      *)
C9_PushPopRoundTrip ==
    /\ \A w \in ProbeWords :
          \E pushed \in {push_stack(cpu_state, memory, w)} :
              pushed.ok =>
                  \E popped \in {pop_stack(pushed.cpu, pushed.mem)} :
                      /\ popped.ok
                      /\ popped.word = w
                      /\ popped.cpu.stack_pointer = cpu_state.stack_pointer
    /\ (last.op = "push" /\ last.ok) =>
          \E popped \in {pop_stack(cpu_state, memory)} :
              /\ popped.ok
              /\ popped.word = last.word
              /\ popped.cpu.stack_pointer = last.addr

C9_Witness ==
    /\ last.op = "pop"
    /\ last.ok
    /\ last.word = DataWord(to_le_bytes(VIRTUAL_PAGE_SIZE), TRUE)
    /\ cpu_state.registers[1] = last.word
    /\ wrapping_add(last.addr, WORD_BYTE_SIZE) = cpu_state.stack_pointer

(* After the collection allocate runs, the used bytes and the region the  *)
(* call asks for together exceed MAX_MEMORY_SIZE                          *)
OverMax(mem, data_size, gc_roots) ==
    used_bytes(force_garbage_collection(mem, gc_roots).mem.regions)
    + data_size + bitfield_len(data_size) > MAX_MEMORY_SIZE

(* The order of allocate's attempts: a free region that fits is taken     *)
(* with no collection and no growth; only a collection that frees enough  *)
(* leaves the heap's length alone; the heap never exceeds its cap         *)
AttemptsInOrder(before, after, rec) ==
    /\ rec.path = "first" <=> ~NeedsCollection(before, rec.size)
    /\ rec.path = "first" =>
          /\ rec.collected = {} /\ ~rec.moved
          /\ Len(after.heap) = Len(before.heap)
    /\ rec.path \in {"after_gc", "over_max"} =>
          Len(after.heap) = Len(before.heap)
    /\ rec.path = "after_growth" =>
          /\ Len(after.heap) >= Len(before.heap)
          /\ Len(after.heap) <= MAX_MEMORY_SIZE

---------------------------------------------------------------------------
(* 64-bit arithmetic on words (UWord::overflowing_add / _sub / _div, the  *)
(* comparisons of step's Compare arm) and IWord as the two's complement   *)
(* bit pattern of a word.                                                 *)

RECURSIVE CarryInto(_, _, _)
CarryInto(a, b, k) ==
    IF k = 1 THEN 0
    ELSE (a[k - 1] + b[k - 1] + CarryInto(a, b, k - 1)) \div 256

RECURSIVE BorrowInto(_, _, _)
BorrowInto(a, b, k) ==
    IF k = 1 THEN 0
    ELSE IF a[k - 1] - b[k - 1] - BorrowInto(a, b, k - 1) < 0 THEN 1 ELSE 0

AddByte(a, b, k) == (a[k] + b[k] + CarryInto(a, b, k)) % 256

SubByte(a, b, k) == (a[k] - b[k] - BorrowInto(a, b, k) + 256) % 256

UWord_overflowing_add(a, b) ==
    [value |-> <<AddByte(a, b, 1), AddByte(a, b, 2), AddByte(a, b, 3),
                 AddByte(a, b, 4), AddByte(a, b, 5), AddByte(a, b, 6),
                 AddByte(a, b, 7), AddByte(a, b, 8)>>,
     carry |-> CarryInto(a, b, WORD_BYTE_SIZE + 1) = 1, panic |-> FALSE]

UWord_overflowing_sub(a, b) ==
    [value |-> <<SubByte(a, b, 1), SubByte(a, b, 2), SubByte(a, b, 3),
                 SubByte(a, b, 4), SubByte(a, b, 5), SubByte(a, b, 6),
                 SubByte(a, b, 7), SubByte(a, b, 8)>>,
     carry |-> BorrowInto(a, b, WORD_BYTE_SIZE + 1) = 1, panic |-> FALSE]

(* A faulty comparison: value1 > value2 *)
UWord_gt(a, b) == BorrowInto(b, a, WORD_BYTE_SIZE + 1) = 1

(* value1 >= value2 on u64 *)
UWord_ge(a, b) == BorrowInto(a, b, WORD_BYTE_SIZE + 1) = 0

(* Long division by a divisor below 2^23, a byte of the dividend at a     *)
(* time from the most significant one; acc is <<quotient, remainder>>.    *)
RECURSIVE DivBytes(_, _, _, _)
DivBytes(a, d, k, acc) ==
    IF k = 0 THEN acc[1]
    ELSE DivBytes(a, d, k - 1,
                  <<[acc[1] EXCEPT ![k] = (acc[2] * 256 + a[k]) \div d],
                    (acc[2] * 256 + a[k]) % d>>)

(* Division by a larger divisor: the quotient is below 2^41 and is        *)
(* counted by subtraction.                                                *)
RECURSIVE DivCount(_, _, _)
DivCount(a, b, q) ==
    IF ~UWord_ge(a, b) THEN q
    ELSE DivCount(UWord_overflowing_sub(a, b).value, b, wrapping_add(q, 1))

(* A faulty division: a zero divisor gives the quotient 0 *)
UWord_div_or_zero(a, b) ==
    [panic |-> FALSE,
     value |-> IF b = to_le_bytes(0) THEN b
               ELSE IF IsSmall(b) /\ b[3] < 128
               THEN DivBytes(a, from_le_bytes(b), WORD_BYTE_SIZE,
                             <<to_le_bytes(0), 0>>)
               ELSE DivCount(a, b, to_le_bytes(0)),
     carry |-> FALSE]

(* u64::overflowing_div: a zero divisor panics, and nothing overflows *)
UWord_overflowing_div(a, b) ==
    IF b = to_le_bytes(0)
    THEN [panic |-> TRUE, value |-> to_le_bytes(0), carry |-> FALSE]
    ELSE [panic |-> FALSE,
          value |-> IF IsSmall(b) /\ b[3] < 128
                    THEN DivBytes(a, from_le_bytes(b), WORD_BYTE_SIZE,
                                  <<to_le_bytes(0), 0>>)
                    ELSE DivCount(a, b, to_le_bytes(0)),
          carry |-> FALSE]

(* u64::overflowing_mul by long multiplication.  Column k of the product *)
(* is the sum of the a[i] * b[j] with i + j = k + 1; bytes 9 to 16 of the *)
(* product are what does not fit the word.                                *)
RECURSIVE MulColumn(_, _, _, _)
MulColumn(a, b, k, i) ==
    IF i > WORD_BYTE_SIZE THEN 0
    ELSE (IF k + 1 - i \in 1..WORD_BYTE_SIZE THEN a[i] * b[k + 1 - i] ELSE 0)
         + MulColumn(a, b, k, i + 1)

RECURSIVE MulCarryInto(_, _, _)
MulCarryInto(a, b, k) ==
    IF k = 1 THEN 0
    ELSE (MulColumn(a, b, k - 1, 1) + MulCarryInto(a, b, k - 1)) \div 256

MulByte(a, b, k) == (MulColumn(a, b, k, 1) + MulCarryInto(a, b, k)) % 256

(* A faulty multiplication: it never reports an overflow *)
UWord_wrapping_mul(a, b) ==
    [value |-> [k \in 1..WORD_BYTE_SIZE |-> MulByte(a, b, k)],
     carry |-> FALSE, panic |-> FALSE]

UWord_overflowing_mul(a, b) ==
    [value |-> [k \in 1..WORD_BYTE_SIZE |-> MulByte(a, b, k)],
     carry |-> \E k \in (WORD_BYTE_SIZE + 1)..(2 * WORD_BYTE_SIZE) :
                  MulByte(a, b, k) # 0,
     panic |-> FALSE]

(* The operators of u64 on bits, a byte at a time *)
BitOperator(op, p, q) ==
    CASE op = "bitand" -> p /\ q
      [] op = "bitor" -> p \/ q
      [] op = "bitxor" -> p # q

RECURSIVE ByteOfBits(_, _, _)
ByteOfBits(bits, first, n) ==
    IF n = 0 THEN 0
    ELSE (IF bits[first] THEN 1 ELSE 0) + 2 * ByteOfBits(bits, first + 1, n - 1)

WORD_BITS == 8 * WORD_BYTE_SIZE

WordBit(a, i) == BitOf(a[(i \div 8) + 1], i % 8)

WordOfBits(bits) ==
    [k \in 1..WORD_BYTE_SIZE |-> ByteOfBits(bits, 8 * (k - 1), 8)]

UWord_bitwise(op, a, b) ==
    [value |-> WordOfBits([i \in 0..(WORD_BITS - 1) |->
                              BitOperator(op, WordBit(a, i), WordBit(b, i))]),
     carry |-> FALSE, panic |-> FALSE]

UWord_not(a) == [k \in 1..WORD_BYTE_SIZE |-> 255 - a[k]]

(* `b as u32`: the four low bytes of the shift amount.  u64's            *)
(* overflowing_shl and _shr shift by the amount masked to 0..63 and       *)
(* report whether the u32 was 64 or more.                                 *)
as_u32(b) == SubSeq(b, 1, 4)

u32_shift(rhs) == rhs[1] % WORD_BITS

(* A faulty report: of the 64-bit amount, before its truncation *)
u64_overflows(b) ==
    \/ b[1] >= WORD_BITS
    \/ \E k \in 2..WORD_BYTE_SIZE : b[k] # 0

u32_overflows(b) ==
    \/ as_u32(b)[1] >= WORD_BITS
    \/ \E k \in 2..4 : as_u32(b)[k] # 0

UWord_overflowing_shl(a, b) ==
    [value |-> WordOfBits([i \in 0..(WORD_BITS - 1) |->
                  /\ i >= u32_shift(as_u32(b))
                  /\ WordBit(a, i - u32_shift(as_u32(b)))]),
     carry |-> u32_overflows(b), panic |-> FALSE]

UWord_overflowing_shr(a, b) ==
    [value |-> WordOfBits([i \in 0..(WORD_BITS - 1) |->
                  /\ i + u32_shift(as_u32(b)) < WORD_BITS
                  /\ WordBit(a, i + u32_shift(as_u32(b)))]),
     carry |-> u32_overflows(b), panic |-> FALSE]

(* IWord: x < 0, x * -1 and x.abs() on the two's complement pattern *)
IWord_negative(x) == x[WORD_BYTE_SIZE] >= 128

IWord_negate(x) == UWord_overflowing_sub(to_le_bytes(0), x).value

IWord_abs(x) == IF IWord_negative(x) THEN IWord_negate(x) ELSE x

---------------------------------------------------------------------------
(* opcodes.rs: instructions, descriptors and operands *)

InstructionValues ==
    [NoOperation |-> 0, Move |-> 1, Add |-> 2, Subtract |-> 3,
     Multiply |-> 4, Divide |-> 5, BitwiseAnd |-> 6, BitwiseOr |-> 7,
     BitwiseXor |-> 8, BitwiseNot |-> 9, ShiftLeft |-> 10,
     ShiftRight |-> 11, Compare |-> 12, Jump |-> 13, JumpEqual |-> 14,
     JumpNotEqual |-> 15, JumpGreater |-> 16, JumpGreaterEqual |-> 17,
     JumpLess |-> 18, JumpLessEqual |-> 19, Call |-> 20, Return |-> 21,
     Push |-> 22, Pop |-> 23, New |-> 24, GarbageCollector |-> 25,
     Reference |-> 26, Unreference |-> 27, CallNative |-> 28,
     DebugMemory |-> 60, DebugDump |-> 61, DebugCpu |-> 62, Halt |-> 63]

Instructions == DOMAIN InstructionValues

RO == "ReadOnly"

RW == "ReadWrite"

(* InstructionRepository::new: the operand modes of each descriptor *)
descriptors ==
    [NoOperation |-> <<>>, Halt |-> <<>>, Add |-> <<RO, RW>>,
     Subtract |-> <<RO, RW>>, Multiply |-> <<RO, RW>>,
     Divide |-> <<RO, RW>>, BitwiseAnd |-> <<RO, RW>>,
     BitwiseOr |-> <<RO, RW>>, BitwiseXor |-> <<RO, RW>>,
     BitwiseNot |-> <<RW>>, ShiftLeft |-> <<RO, RW>>,
     ShiftRight |-> <<RO, RW>>, Compare |-> <<RO, RO>>, Jump |-> <<RO>>,
     JumpEqual |-> <<RO>>, JumpNotEqual |-> <<RO>>, JumpGreater |-> <<RO>>,
     JumpGreaterEqual |-> <<RO>>, JumpLess |-> <<RO>>,
     JumpLessEqual |-> <<RO>>, Call |-> <<RO>>, Return |-> <<>>,
     Move |-> <<RO, RW>>, Push |-> <<RO>>, Pop |-> <<RW>>,
     New |-> <<RO, RW>>, GarbageCollector |-> <<>>, Reference |-> <<RW>>,
     Unreference |-> <<RW>>, CallNative |-> <<RO>>, DebugCpu |-> <<RO>>,
     DebugDump |-> <<RO, RO>>, DebugMemory |-> <<>>]

(* A faulty Instruction::decode: an unknown value is taken for nop *)
Instruction_decode_any(value) ==
    IF \E i \in Instructions : InstructionValues[i] = value
    THEN [ok |-> TRUE,
          instruction |-> CHOOSE i \in Instructions :
                             InstructionValues[i] = value]
    ELSE [ok |-> TRUE, instruction |-> "NoOperation"]

(* Instruction::decode / from_value *)
Instruction_decode(value) ==
    IF \E i \in Instructions : InstructionValues[i] = value
    THEN [ok |-> TRUE,
          instruction |-> CHOOSE i \in Instructions :
                             InstructionValues[i] = value]
    ELSE [ok |-> FALSE, instruction |-> "NoOperation"]

(* A faulty can_be_used_as: a read-only operand may stand anywhere *)
can_be_used_as_anything(self, other) == TRUE

(* OperandMode::can_be_used_as *)
can_be_used_as(self, other) ==
    IF self = other THEN TRUE
    ELSE IF self = RW /\ other = RO THEN TRUE
    ELSE FALSE

(* The four operands of opcodes.rs, and the label operand that only the   *)
(* assembler's parser has.  A field an operand does not carry is 0.       *)
Immediate(v) ==
    [kind |-> "Immediate", register |-> 0, value |-> v, label |-> ""]

Register(r) ==
    [kind |-> "Register", register |-> r, value |-> to_le_bytes(0),
     label |-> ""]

Reference(r, offset) ==
    [kind |-> "Reference", register |-> r, value |-> offset, label |-> ""]

Stack(offset) ==
    [kind |-> "Stack", register |-> 0, value |-> offset, label |-> ""]

Label(l) ==
    [kind |-> "Label", register |-> 0, value |-> to_le_bytes(0),
     label |-> l]

(* A faulty mode: an immediate passes for read/write *)
Operand_mode_read_write(op) == RW

(* Operand::mode *)
Operand_mode(op) == IF op.kind = "Immediate" THEN RO ELSE RW

---------------------------------------------------------------------------
(* The readers Opcode::decode is used with: a cursor over a byte vector   *)
(* (main.rs) and the interpreter's reader at the instruction pointer,     *)
(* which moves the instruction pointer past what it read.                 *)

Cursor(data) == [kind |-> "cursor", data |-> data, pos |-> 0]

ip_reader(cpu, mem) == [kind |-> "ip", cpu |-> cpu, mem |-> mem]

read_exact(reader, n) ==
    IF n = 0 THEN [ok |-> TRUE, data |-> <<>>, reader |-> reader]
    ELSE IF reader.kind = "cursor"
    THEN IF reader.pos + n > Len(reader.data)
         THEN [ok |-> FALSE, data |-> <<>>, reader |-> reader]
         ELSE [ok |-> TRUE,
               data |-> SubSeq(reader.data, reader.pos + 1, reader.pos + n),
               reader |-> [reader EXCEPT !.pos = @ + n]]
    ELSE The({ IF ~r.ok THEN [ok |-> FALSE, data |-> <<>>, reader |-> reader]
               ELSE [ok |-> TRUE, data |-> r.data,
                     reader |-> [reader EXCEPT
                                   !.cpu.instruction_pointer =
                                      wrapping_add(@, n)]]
             : r \in {Memory_get(reader.mem,
                                 reader.cpu.instruction_pointer, n)} })

(* value_padded_bytes *)
Padded(bytes) ==
    bytes \o SubSeq(to_le_bytes(0), 1, WORD_BYTE_SIZE - Len(bytes))

(* The operand a first byte and its value bytes stand for *)
Operand_of(first_byte, value_bytes) ==
    The({ CASE first_byte \div 64 = 0 ->
                 Immediate(IF (first_byte \div 8) % 2 = 0 THEN uvalue
                           ELSE IWord_negate(uvalue))
            [] first_byte \div 64 = 1 -> Register((first_byte \div 16) % 4)
            [] first_byte \div 64 = 2 ->
                 Reference((first_byte \div 16) % 4,
                           IF (first_byte \div 8) % 2 = 0 THEN uvalue
                           ELSE IWord_negate(uvalue))
            [] OTHER -> Stack(uvalue)
        : uvalue \in {Padded(value_bytes)} })

Operand_decode(reader) ==
    The({ IF ~first.ok
          THEN [ok |-> FALSE, operand |-> Register(0), reader |-> reader]
          ELSE The({ IF ~value.ok
                     THEN [ok |-> FALSE, operand |-> Register(0),
                           reader |-> first.reader]
                     ELSE [ok |-> TRUE,
                           operand |-> Operand_of(first.data[1], value.data),
                           reader |-> value.reader]
                   : value \in {read_exact(first.reader,
                                           first.data[1] % 8)} })
        : first \in {read_exact(reader, 1)} })

(* The loop of Opcode::decode that reads operand_count operands *)
RECURSIVE decode_operands(_, _, _)
decode_operands(reader, operand_count, operands) ==
    IF operand_count = 0
    THEN [ok |-> TRUE, operands |-> operands, reader |-> reader]
    ELSE The({ IF ~o.ok
               THEN [ok |-> FALSE, operands |-> operands,
                     reader |-> o.reader]
               ELSE decode_operands(o.reader, operand_count - 1,
                                    Append(operands, o.operand))
             : o \in {Operand_decode(reader)} })

NoOpcode == [instruction |-> "NoOperation", operands |-> <<>>]

(* The checks of a decoded opcode against its descriptor *)
check_opcode(instruction, r) ==
    IF ~r.ok
    THEN [ok |-> FALSE, error |-> "read", opcode |-> NoOpcode,
          reader |-> r.reader]
    ELSE IF Len(descriptors[instruction]) # Len(r.operands)
    THEN [ok |-> FALSE, error |-> "operand count", opcode |-> NoOpcode,
          reader |-> r.reader]
    ELSE IF \E i \in DOMAIN r.operands :
               ~can_be_used_as(Operand_mode(r.operands[i]),
                               descriptors[instruction][i])
    THEN [ok |-> FALSE, error |-> "operand mode", opcode |-> NoOpcode,
          reader |-> r.reader]
    ELSE [ok |-> TRUE, error |-> "",
          opcode |-> [instruction |-> instruction, operands |-> r.operands],
          reader |-> r.reader]

Opcode_decode(reader) ==
    The({ IF ~first.ok
          THEN [ok |-> FALSE, error |-> "read", opcode |-> NoOpcode,
                reader |-> reader]
          ELSE The({ IF ~i.ok
                     THEN [ok |-> FALSE, error |-> "no instruction",
                           opcode |-> NoOpcode, reader |-> first.reader]
                     ELSE check_opcode(i.instruction,
                              decode_operands(first.reader,
                                              first.data[1] \div 64, <<>>))
                   : i \in {Instruction_decode(first.data[1] % 64)} })
        : first \in {read_exact(reader, 1)} })

---------------------------------------------------------------------------
(* interpreter/mod.rs: DataValue and the operand accesses of Interpreter. *)
(* A result carries the two parts of the interpreter as the call left     *)
(* them: what was mutated before an error stays mutated.                  *)

(* The function of UWord that overflowing_operation is handed, by name *)
UWord_operation(op, a, b) ==
    CASE op = "overflowing_add" -> UWord_overflowing_add(a, b)
      [] op = "overflowing_sub" -> UWord_overflowing_sub(a, b)
      [] op = "overflowing_div" -> UWord_overflowing_div(a, b)
      [] op = "overflowing_mul" -> UWord_overflowing_mul(a, b)
      [] op = "overflowing_shl" -> UWord_overflowing_shl(a, b)
      [] op = "overflowing_shr" -> UWord_overflowing_shr(a, b)
      [] op \in {"bitand", "bitor", "bitxor"} -> UWord_bitwise(op, a, b)

(* A faulty combine: the result takes the tag of self alone *)
overflowing_operation_self_tag(self, other, op) ==
    The({ [word |-> DataWord(r.value, self.is_reference),
           carry |-> r.carry, panic |-> r.panic]
        : r \in {UWord_operation(op, self.value, other.value)} })

overflowing_operation(self, other, op) ==
    The({ [word |-> DataWord(r.value,
                             self.is_reference \/ other.is_reference),
           carry |-> r.carry, panic |-> r.panic]
        : r \in {UWord_operation(op, self.value, other.value)} })

overflowing_add(self, other) ==
    overflowing_operation(self, other, "overflowing_add")

(* A faulty overflowing_sub: it subtracts the other way round *)
overflowing_sub_reversed(self, other) ==
    overflowing_operation(other, self, "overflowing_sub")

overflowing_sub(self, other) ==
    overflowing_operation(self, other, "overflowing_sub")

overflowing_div(self, other) ==
    overflowing_operation(self, other, "overflowing_div")

overflowing_mul(self, other) ==
    overflowing_operation(self, other, "overflowing_mul")

overflowing_shl(self, other) ==
    overflowing_operation(self, other, "overflowing_shl")

overflowing_shr(self, other) ==
    overflowing_operation(self, other, "overflowing_shr")

(* DataValue::combine under the BitAnd, BitOr and BitXor of DataValue:   *)
(* a combiner sets no carry                                               *)
DataValue_combine(self, other, combiner) ==
    overflowing_operation(self, other, combiner)

(* Not for DataValue: map keeps is_reference *)
DataValue_not(self) == DataWord(UWord_not(self.value), self.is_reference)

NotReference == "Expected a reference, but found data"

(* A faulty expect_reference: it takes every word for a reference *)
expect_anything(word) == [ok |-> TRUE, error |-> "", value |-> word.value]

(* DataValue::expect_reference, on the base register of the operand *)
expect_reference(word) ==
    IF ~word.is_reference
    THEN [ok |-> FALSE, error |-> NotReference, value |-> to_le_bytes(0)]
    ELSE [ok |-> TRUE, error |-> "", value |-> word.value]

get_effective_address(cpu, op) ==
    IF op.kind = "Reference"
    THEN The({ IF ~base_addr.ok
               THEN [ok |-> FALSE, error |-> base_addr.error,
                     addr |-> to_le_bytes(0)]
               ELSE [ok |-> TRUE, error |-> "",
                     addr |-> UWord_overflowing_add(base_addr.value,
                                                    op.value).value]
             : base_addr \in {expect_reference(cpu.registers[op.register])} })
    ELSE [ok |-> TRUE, error |-> "",
          addr |-> UWord_overflowing_add(cpu.stack_pointer, op.value).value]

Interpreter_read(cpu, mem, op) ==
    CASE op.kind = "Immediate" ->
           [ok |-> TRUE, error |-> "", word |-> DataWord(op.value, FALSE)]
      [] op.kind = "Register" ->
           [ok |-> TRUE, error |-> "", word |-> cpu.registers[op.register]]
      [] OTHER ->
           The({ IF ~addr.ok
                 THEN [ok |-> FALSE, error |-> addr.error,
                       word |-> DataWord(to_le_bytes(0), FALSE)]
                 ELSE The({ [ok |-> g.ok,
                             error |-> IF g.ok THEN "" ELSE "memory",
                             word |-> g.word]
                          : g \in {get_data_word(mem, addr.addr)} })
               : addr \in {get_effective_address(cpu, op)} })

ImmediateDestination == "Immediate value can't be used as a destination"

Interpreter_write(cpu, mem, op, value) ==
    CASE op.kind = "Immediate" ->
           [ok |-> FALSE, error |-> ImmediateDestination,
            cpu |-> cpu, mem |-> mem]
      [] op.kind = "Register" ->
           [ok |-> TRUE, error |-> "",
            cpu |-> write_register(cpu, op.register, value), mem |-> mem]
      [] OTHER ->
           The({ IF ~addr.ok
                 THEN [ok |-> FALSE, error |-> addr.error,
                       cpu |-> cpu, mem |-> mem]
                 ELSE The({ [ok |-> s.ok,
                             error |-> IF s.ok THEN "" ELSE "memory",
                             cpu |-> cpu, mem |-> s.mem]
                          : s \in {set_data_word(mem, addr.addr, value)} })
               : addr \in {get_effective_address(cpu, op)} })

(* A faulty write_with_flags: it leaves the carry flag as it was *)
Interpreter_write_with_zero_flag(cpu, mem, op, value) ==
    The({ IF ~w.ok THEN w
          ELSE [w EXCEPT !.cpu.zero_flag = (value.value = to_le_bytes(0))]
        : w \in {Interpreter_write(cpu, mem, op, value)} })

Interpreter_write_with_flags(cpu, mem, op, value) ==
    The({ IF ~w.ok THEN w
          ELSE [w EXCEPT !.cpu.carry_flag = FALSE,
                         !.cpu.zero_flag = (value.value = to_le_bytes(0))]
        : w \in {Interpreter_write(cpu, mem, op, value)} })

---------------------------------------------------------------------------
(* Interpreter::step.  A result is [ok, error, cpu, mem]; step adds       *)
(* running, the bool of its Ok.                                           *)

Done(cpu, mem) == [ok |-> TRUE, error |-> "", cpu |-> cpu, mem |-> mem]

Failed(error, cpu, mem) ==
    [ok |-> FALSE, error |-> error, cpu |-> cpu, mem |-> mem]

ensure_operands(op, expected_operands) == Len(op.operands) = expected_operands

OperandCount == "Expected operands"

(* The operation combine is handed: a function of DataWord by name, or   *)
(* the closure that calls it with its arguments exchanged                 *)
Operation(name) == [name |-> name, exchanged |-> FALSE]

DataWord_operation(name, a, b) ==
    CASE name = "overflowing_add" -> overflowing_add(a, b)
      [] name = "overflowing_sub" -> overflowing_sub(a, b)
      [] name = "overflowing_div" -> overflowing_div(a, b)
      [] name = "overflowing_mul" -> overflowing_mul(a, b)
      [] name = "overflowing_shl" -> overflowing_shl(a, b)
      [] name = "overflowing_shr" -> overflowing_shr(a, b)
      [] name \in {"bitand", "bitor", "bitxor"} ->
           DataValue_combine(a, b, name)

call_operation(operation, a, b) ==
    IF operation.exchanged THEN DataWord_operation(operation.name, b, a)
    ELSE DataWord_operation(operation.name, a, b)

(* combine, with the carry its closure captured from the operation *)
combine_values(cpu, mem, opcode, operation, value1, value2) ==
    IF ~value1.ok THEN Failed(value1.error, cpu, mem) @@ [carry |-> FALSE]
    ELSE IF ~value2.ok THEN Failed(value2.error, cpu, mem) @@ [carry |-> FALSE]
    ELSE The({ IF result.panic
               THEN Failed("panic", cpu, mem) @@ [carry |-> FALSE]
               ELSE Interpreter_write_with_flags(cpu, mem, opcode.operands[2],
                                                 result.word)
                    @@ [carry |-> result.carry]
             : result \in {call_operation(operation, value1.word,
                                          value2.word)} })

combine(cpu, mem, opcode, operation) ==
    IF ~ensure_operands(opcode, 2)
    THEN Failed(OperandCount, cpu, mem) @@ [carry |-> FALSE]
    ELSE combine_values(cpu, mem, opcode, operation,
                        Interpreter_read(cpu, mem, opcode.operands[1]),
                        Interpreter_read(cpu, mem, opcode.operands[2]))

combine_with_carry(cpu, mem, opcode, operation) ==
    The({ IF ~r.ok THEN Failed(r.error, r.cpu, r.mem)
          ELSE Done([r.cpu EXCEPT !.carry_flag = r.carry], r.mem)
        : r \in {combine(cpu, mem, opcode, operation)} })

reverse_combine_with_carry(cpu, mem, opcode, operation) ==
    combine_with_carry(cpu, mem, opcode,
                       [operation EXCEPT !.exchanged = ~@])

jump(cpu, mem, opcode) ==
    IF ~ensure_operands(opcode, 1) THEN Failed(OperandCount, cpu, mem)
    ELSE The({ IF ~addr.ok THEN Failed(addr.error, cpu, mem)
               ELSE Done([cpu EXCEPT !.instruction_pointer = addr.word.value],
                         mem)
             : addr \in {Interpreter_read(cpu, mem, opcode.operands[1])} })

(* zero_flag and carry_flag are Option<bool>: None or Some(expected) *)
conditional_jump(cpu, mem, opcode, zero_flag, carry_flag) ==
    IF /\ (zero_flag.some => cpu.zero_flag = zero_flag.value)
       /\ (carry_flag.some => cpu.carry_flag = carry_flag.value)
    THEN jump(cpu, mem, opcode)
    ELSE Done(cpu, mem)

Arm_Move(cpu, mem, opcode) ==
    IF ~ensure_operands(opcode, 2) THEN Failed(OperandCount, cpu, mem)
    ELSE The({ IF ~value.ok THEN Failed(value.error, cpu, mem)
               ELSE Interpreter_write_with_flags(cpu, mem, opcode.operands[2],
                                                 value.word)
             : value \in {Interpreter_read(cpu, mem, opcode.operands[1])} })

(* The arms of BitwiseAnd, BitwiseOr and BitwiseXor: combine alone *)
Arm_Bitwise(cpu, mem, opcode, operation) ==
    The({ [ok |-> r.ok, error |-> r.error, cpu |-> r.cpu, mem |-> r.mem]
        : r \in {combine(cpu, mem, opcode, operation)} })

Arm_BitwiseNot(cpu, mem, opcode) ==
    IF ~ensure_operands(opcode, 1) THEN Failed(OperandCount, cpu, mem)
    ELSE The({ IF ~value.ok THEN Failed(value.error, cpu, mem)
               ELSE Interpreter_write_with_flags(cpu, mem, opcode.operands[1],
                                                 DataValue_not(value.word))
             : value \in {Interpreter_read(cpu, mem, opcode.operands[1])} })

(* DebugCpu and DebugMemory print and change nothing *)
Arm_DebugCpu(cpu, mem, opcode) ==
    IF ~ensure_operands(opcode, 1) THEN Failed(OperandCount, cpu, mem)
    ELSE The({ IF ~num.ok THEN Failed(num.error, cpu, mem)
               ELSE Done(cpu, mem)
             : num \in {Interpreter_read(cpu, mem, opcode.operands[1])} })

Arm_DebugMemory(cpu, mem, opcode) ==
    IF ~ensure_operands(opcode, 2) THEN Failed(OperandCount, cpu, mem)
    ELSE The({ IF ~addr.ok THEN Failed(addr.error, cpu, mem)
               ELSE IF ~len.ok THEN Failed(len.error, cpu, mem)
               ELSE IF ~IsSmall(len.word.value)
                       \/ ~Memory_get(mem, addr.word.value,
                                      from_le_bytes(len.word.value)).ok
               THEN Failed("memory", cpu, mem)
               ELSE Done(cpu, mem)
             : addr \in {Interpreter_read(cpu, mem, opcode.operands[1])},
               len \in {Interpreter_read(cpu, mem, opcode.operands[2])} })

Arm_Compare(cpu, mem, opcode) ==
    IF ~ensure_operands(opcode, 2) THEN Failed(OperandCount, cpu, mem)
    ELSE The({ IF ~value1.ok THEN Failed(value1.error, cpu, mem)
               ELSE IF ~value2.ok THEN Failed(value2.error, cpu, mem)
               ELSE Done([cpu EXCEPT
                            !.zero_flag = (value1.word.value
                                           = value2.word.value),
                            !.carry_flag = UWord_ge(value1.word.value,
                                                    value2.word.value)],
                         mem)
             : value1 \in {Interpreter_read(cpu, mem, opcode.operands[1])},
               value2 \in {Interpreter_read(cpu, mem, opcode.operands[2])} })

Arm_JumpLessEqual(cpu, mem, opcode) ==
    IF cpu.zero_flag \/ ~cpu.carry_flag THEN jump(cpu, mem, opcode)
    ELSE Done(cpu, mem)

(* A faulty return address: it is not tagged as a reference *)
untagged_return_address(cpu) == DataWord(cpu.instruction_pointer, FALSE)

(* The word call pushes: the instruction pointer, already past the call *)
return_address(cpu) == DataWord(cpu.instruction_pointer, TRUE)

Arm_Call(cpu, mem, opcode) ==
    IF ~ensure_operands(opcode, 1) THEN Failed(OperandCount, cpu, mem)
    ELSE The({ IF ~addr.ok THEN Failed(addr.error, cpu, mem)
               ELSE The({ IF ~p.ok THEN Failed("memory", p.cpu, p.mem)
                          ELSE Done([p.cpu EXCEPT !.instruction_pointer =
                                        addr.word.value], p.mem)
                        : p \in {push_stack(cpu, mem, return_address(cpu))} })
             : addr \in {Interpreter_read(cpu, mem, opcode.operands[1])} })

NonReferenceReturn == "Tried to return from a non-reference data word"

Arm_Return(cpu, mem, opcode) ==
    IF ~ensure_operands(opcode, 0) THEN Failed(OperandCount, cpu, mem)
    ELSE The({ IF ~addr.ok THEN Failed("memory", addr.cpu, mem)
               ELSE IF ~addr.word.is_reference
               THEN Failed(NonReferenceReturn, addr.cpu, mem)
               ELSE Done([addr.cpu EXCEPT !.instruction_pointer =
                             addr.word.value], mem)
             : addr \in {pop_stack(cpu, mem)} })

Arm_Push(cpu, mem, opcode) ==
    IF ~ensure_operands(opcode, 1) THEN Failed(OperandCount, cpu, mem)
    ELSE The({ IF ~value.ok THEN Failed(value.error, cpu, mem)
               ELSE The({ IF ~p.ok THEN Failed("memory", p.cpu, p.mem)
                          ELSE Done(p.cpu, p.mem)
                        : p \in {push_stack(cpu, mem, value.word)} })
             : value \in {Interpreter_read(cpu, mem, opcode.operands[1])} })

Arm_Pop(cpu, mem, opcode) ==
    IF ~ensure_operands(opcode, 1) THEN Failed(OperandCount, cpu, mem)
    ELSE The({ IF ~value.ok THEN Failed("memory", value.cpu, mem)
               ELSE Interpreter_write(value.cpu, mem, opcode.operands[1],
                                      value.word)
             : value \in {pop_stack(cpu, mem)} })

(* The arms Reference and Unreference: the operand's word with its tag set *)
(* A faulty ref / unref: the word is written with write_with_flags *)
Arm_Tag_with_flags(cpu, mem, opcode, tag) ==
    IF ~ensure_operands(opcode, 1) THEN Failed(OperandCount, cpu, mem)
    ELSE The({ IF ~value.ok THEN Failed(value.error, cpu, mem)
               ELSE Interpreter_write_with_flags(
                        cpu, mem, opcode.operands[1],
                        DataWord(value.word.value, tag))
             : value \in {Interpreter_read(cpu, mem, opcode.operands[1])} })

Arm_Tag(cpu, mem, opcode, tag) ==
    IF ~ensure_operands(opcode, 1) THEN Failed(OperandCount, cpu, mem)
    ELSE The({ IF ~value.ok THEN Failed(value.error, cpu, mem)
               ELSE Interpreter_write(cpu, mem, opcode.operands[1],
                                      DataWord(value.word.value, tag))
             : value \in {Interpreter_read(cpu, mem, opcode.operands[1])} })

(* The arms of step's match that the programs of this model reach; the    *)
(* allocator's instructions, the native calls and the debug output are    *)
(* left out.                                                              *)
execute(cpu, mem, opcode) ==
    CASE opcode.instruction \in {"NoOperation", "Halt"} -> Done(cpu, mem)
      [] opcode.instruction = "Move" -> Arm_Move(cpu, mem, opcode)
      [] opcode.instruction = "Add" ->
           combine_with_carry(cpu, mem, opcode, Operation("overflowing_add"))
      [] opcode.instruction = "Subtract" ->
           reverse_combine_with_carry(cpu, mem, opcode,
                                      Operation("overflowing_sub"))
      [] opcode.instruction = "Divide" ->
           reverse_combine_with_carry(cpu, mem, opcode,
                                      Operation("overflowing_div"))
      [] opcode.instruction = "Multiply" ->
           combine_with_carry(cpu, mem, opcode, Operation("overflowing_mul"))
      [] opcode.instruction = "BitwiseAnd" ->
           Arm_Bitwise(cpu, mem, opcode, Operation("bitand"))
      [] opcode.instruction = "BitwiseOr" ->
           Arm_Bitwise(cpu, mem, opcode, Operation("bitor"))
      [] opcode.instruction = "BitwiseXor" ->
           Arm_Bitwise(cpu, mem, opcode, Operation("bitxor"))
      [] opcode.instruction = "BitwiseNot" -> Arm_BitwiseNot(cpu, mem, opcode)
      [] opcode.instruction = "ShiftLeft" ->
           combine_with_carry(cpu, mem, opcode, Operation("overflowing_shl"))
      [] opcode.instruction = "ShiftRight" ->
           combine_with_carry(cpu, mem, opcode, Operation("overflowing_shr"))
      [] opcode.instruction = "Compare" -> Arm_Compare(cpu, mem, opcode)
      [] opcode.instruction = "Jump" -> jump(cpu, mem, opcode)
      [] opcode.instruction = "JumpEqual" ->
           conditional_jump(cpu, mem, opcode, Some(TRUE), None)
      [] opcode.instruction = "JumpNotEqual" ->
           conditional_jump(cpu, mem, opcode, Some(FALSE), None)
      [] opcode.instruction = "JumpGreater" ->
           conditional_jump(cpu, mem, opcode, Some(FALSE), Some(TRUE))
      [] opcode.instruction = "JumpGreaterEqual" ->
           conditional_jump(cpu, mem, opcode, None, Some(TRUE))
      [] opcode.instruction = "JumpLess" ->
           conditional_jump(cpu, mem, opcode, None, Some(FALSE))
      [] opcode.instruction = "JumpLessEqual" ->
           Arm_JumpLessEqual(cpu, mem, opcode)
      [] opcode.instruction = "Call" -> Arm_Call(cpu, mem, opcode)
      [] opcode.instruction = "Return" -> Arm_Return(cpu, mem, opcode)
      [] opcode.instruction = "Push" -> Arm_Push(cpu, mem, opcode)
      [] opcode.instruction = "Pop" -> Arm_Pop(cpu, mem, opcode)
      [] opcode.instruction = "Reference" -> Arm_Tag(cpu, mem, opcode, TRUE)
      [] opcode.instruction = "Unreference" ->
           Arm_Tag(cpu, mem, opcode, FALSE)
      [] opcode.instruction = "DebugCpu" -> Arm_DebugCpu(cpu, mem, opcode)
      [] opcode.instruction = "DebugMemory" ->
           Arm_DebugMemory(cpu, mem, opcode)
      [] OTHER -> Failed("not modelled", cpu, mem)

Modelled ==
    {"NoOperation", "Halt", "Move", "Add", "Subtract", "Multiply", "Divide",
     "BitwiseAnd", "BitwiseOr", "BitwiseXor", "BitwiseNot", "ShiftLeft",
     "ShiftRight", "Compare", "DebugCpu", "DebugMemory",
     "Jump", "JumpEqual", "JumpNotEqual", "JumpGreater", "JumpGreaterEqual",
     "JumpLess", "JumpLessEqual", "Call", "Return", "Push", "Pop",
     "Reference", "Unreference"}

step(cpu, mem) ==
    The({ IF ~opcode.ok
          THEN Failed(opcode.error, opcode.reader.cpu, mem)
               @@ [running |-> FALSE, opcode |-> NoOpcode]
          ELSE execute(opcode.reader.cpu, mem, opcode.opcode)
               @@ [running |-> opcode.opcode.instruction # "Halt",
                   opcode |-> opcode.opcode]
        : opcode \in {Opcode_decode(ip_reader(cpu, mem))} })

---------------------------------------------------------------------------
(* assembler/encoder.rs.  A token is one of the five TokenValue variants; *)
(* the encoder is its output, written from offset 0, its label_values and *)
(* its fixups (offset of the value bytes |-> label).                      *)

TokenLabel(s) == [kind |-> "Label", label |-> s]

TokenDefine(label, value) ==
    [kind |-> "Define", label |-> label, value |-> value]

(* Option<String>::None *)
NoLabel == [some |-> FALSE, value |-> ""]

(* length_label is NoLabel or Some(label); value is the string's bytes *)
TokenString(length_label, value) ==
    [kind |-> "String", length_label |-> length_label, value |-> value]

TokenAlign(n) == [kind |-> "Align", alignment |-> n]

TokenOpcode(instruction, operands) ==
    [kind |-> "Opcode", instruction |-> instruction, operands |-> operands]

Encoder_new == [output |-> <<>>, label_values |-> <<>>, fixups |-> <<>>]

EncOk(enc) == [ok |-> TRUE, error |-> "", enc |-> enc]

EncErr(error, enc) == [ok |-> FALSE, error |-> error, enc |-> enc]

Redefinition == "Redefinition of label"

LabelNotFound == "Label not found"

(* self.offset(): the output is written front to back until fixup *)
offset(enc) == Len(enc.output)

(* A faulty set_label_value_without_override: a second value replaces    *)
(* the first without an error                                             *)
set_label_value_with_override(enc, name, value) ==
    EncOk([enc EXCEPT !.label_values =
              [n \in (DOMAIN @) \cup {name} |->
                  IF n = name THEN value ELSE @[n]]])

(* HashMap::insert: the value is stored also when the name was there *)
set_label_value_without_override(enc, name, value) ==
    IF name \in DOMAIN enc.label_values
    THEN EncErr(Redefinition,
                [enc EXCEPT !.label_values[name] = value])
    ELSE EncOk([enc EXCEPT !.label_values =
                   [n \in (DOMAIN @) \cup {name} |->
                       IF n = name THEN value ELSE @[n]]])

remember_label(enc, name) ==
    set_label_value_without_override(enc, name, to_le_bytes(offset(enc)))

encode_string(enc, length_label, value) ==
    IF length_label.some
    THEN The({ IF ~r.ok THEN r
               ELSE EncOk([r.enc EXCEPT !.output = @ \o value])
             : r \in {set_label_value_without_override(
                          enc, length_label.value, to_le_bytes(Len(value)))} })
    ELSE EncOk([enc EXCEPT !.output = @ \o value])

RECURSIVE align_loop(_, _)
align_loop(enc, alignment) ==
    IF offset(enc) % alignment = 0 THEN enc
    ELSE align_loop([enc EXCEPT !.output = Append(@, 0)], alignment)

align_output(enc, alignment) ==
    IF alignment <= 1 THEN EncErr("Alignment must be bigger than 1", enc)
    ELSE EncOk(align_loop(enc, alignment))

get_operand_data(operand) ==
    CASE operand.kind = "Label" ->
           [addressing_mode |-> 0, register_number |-> 0,
            value_is_positive |-> TRUE, value_absolute |-> to_le_bytes(0),
            label |-> Some(operand.label)]
      [] operand.kind = "Immediate" ->
           [addressing_mode |-> 0, register_number |-> 0,
            value_is_positive |-> ~IWord_negative(operand.value),
            value_absolute |-> IWord_abs(operand.value), label |-> NoLabel]
      [] operand.kind = "Register" ->
           [addressing_mode |-> 1, register_number |-> operand.register,
            value_is_positive |-> TRUE, value_absolute |-> to_le_bytes(0),
            label |-> NoLabel]
      [] operand.kind = "Reference" ->
           [addressing_mode |-> 2, register_number |-> operand.register,
            value_is_positive |-> ~IWord_negative(operand.value),
            value_absolute |-> IWord_abs(operand.value), label |-> NoLabel]
      [] OTHER ->
           [addressing_mode |-> 3, register_number |-> 0,
            value_is_positive |-> TRUE, value_absolute |-> operand.value,
            label |-> NoLabel]

(* A faulty strip_zeros: it keeps the word's eight bytes but the last *)
keep_zeros(value_bytes) == SubSeq(value_bytes, 1, Len(value_bytes) - 1)

(* while value_bytes.ends_with(&[0]) { value_bytes.pop(); } *)
RECURSIVE strip_zeros(_)
strip_zeros(value_bytes) ==
    IF value_bytes # <<>> /\ value_bytes[Len(value_bytes)] = 0
    THEN strip_zeros(SubSeq(value_bytes, 1, Len(value_bytes) - 1))
    ELSE value_bytes

operand_value_bytes(data) ==
    IF data.label.some
    THEN SubSeq(data.value_absolute, 1, WORD_BYTE_SIZE - 1)
    ELSE strip_zeros(data.value_absolute)

operand_first_byte(data, value_bytes) ==
    (data.addressing_mode % 4) * 64 + (data.register_number % 4) * 16
    + (IF data.value_is_positive THEN 0 ELSE 8) + (Len(value_bytes) % 8)

write_operand(enc, data, value_bytes) ==
    IF Len(value_bytes) > 7
    THEN EncErr("Operand value cannot be longer than 7 bytes", enc)
    ELSE EncOk([enc EXCEPT
                  !.output = Append(@, operand_first_byte(data, value_bytes))
                             \o value_bytes,
                  !.fixups =
                      IF data.label.some
                      THEN [o \in (DOMAIN @) \cup {offset(enc) + 1} |->
                               IF o = offset(enc) + 1 THEN data.label.value
                               ELSE @[o]]
                      ELSE @])

encode_operand(enc, operand) ==
    The({ write_operand(enc, data, operand_value_bytes(data))
        : data \in {get_operand_data(operand)} })

RECURSIVE encode_operands(_, _, _)
encode_operands(enc, operands, i) ==
    IF i > Len(operands) THEN EncOk(enc)
    ELSE The({ IF ~r.ok THEN r ELSE encode_operands(r.enc, operands, i + 1)
             : r \in {encode_operand(enc, operands[i])} })

encode_opcode(enc, instr, operands) ==
    encode_operands(
        [enc EXCEPT !.output =
            Append(@, (InstructionValues[instr] % 64)
                      + (Len(operands) % 4) * 64)],
        operands, 1)

encode_single(enc, token) ==
    CASE token.kind = "Label" -> remember_label(enc, token.label)
      [] token.kind = "Define" ->
           set_label_value_without_override(enc, token.label, token.value)
      [] token.kind = "String" ->
           encode_string(enc, token.length_label, token.value)
      [] token.kind = "Align" -> align_output(enc, token.alignment)
      [] OTHER -> encode_opcode(enc, token.instruction, token.operands)

(* The fixups in ascending order of offset.  On an error the output keeps *)
(* the fixups written before it; encode's caller gets the error only.     *)
RECURSIVE fixup(_, _)
fixup(enc, offsets) ==
    IF offsets = {} THEN EncOk(enc)
    ELSE The({ IF enc.fixups[o] \notin DOMAIN enc.label_values
               THEN EncErr(LabelNotFound, enc)
               ELSE fixup([enc EXCEPT !.output =
                             SubSeq(@, 1, o)
                             \o SubSeq(enc.label_values[enc.fixups[o]], 1,
                                       WORD_BYTE_SIZE - 1)
                             \o SubSeq(@, o + WORD_BYTE_SIZE, Len(@))],
                          offsets \ {o})
             : o \in {CHOOSE o \in offsets : \A p \in offsets : o <= p} })

RECURSIVE encode_tokens(_, _, _)
encode_tokens(enc, tokens, index) ==
    IF index > Len(tokens) THEN fixup(enc, DOMAIN enc.fixups)
    ELSE The({ IF ~r.ok THEN r ELSE encode_tokens(r.enc, tokens, index + 1)
             : r \in {encode_single(enc, tokens[index])} })

encode(tokens) == encode_tokens(Encoder_new, tokens, 1)

---------------------------------------------------------------------------
(* run (interpreter/mod.rs): the program image is written at virtual      *)
(* address 0, the stack follows, and step is called until it returns      *)
(* Ok(false) or an error.                                                 *)

run_start(program_data, fill) ==
    The({ IF ~program.ok \/ program.addr # 0
          THEN [ok |-> FALSE, mem |-> program.mem, cpu |-> CpuState_default]
          ELSE The({ IF ~image.ok
                     THEN [ok |-> FALSE, mem |-> image.mem,
                           cpu |-> CpuState_default]
                     ELSE The({ [ok |-> stack.ok, mem |-> stack.mem,
                                 cpu |-> [CpuState_default EXCEPT
                                            !.stack_pointer =
                                               wrapping_sub(
                                                  wrapping_add(
                                                     to_le_bytes(stack.addr),
                                                     STACK_SIZE),
                                                  WORD_BYTE_SIZE)]]
                              : stack \in {Memory_allocate(
                                              image.mem, STACK_SIZE, FALSE,
                                              <<>>, None, fill)} })
                   : image \in {Memory_set(program.mem, to_le_bytes(0),
                                           program_data)} })
        : program \in {Memory_allocate(Memory_new(fill),
                                       aligned_len(Len(program_data)), FALSE,
                                       <<>>, Some(0), fill)} })

(* The programs that are run, as the token lists the assembler encodes.   *)
(* MAX is 2^64 - 1, the word an immediate of -1 reads as.                 *)
MAX == IWord_negate(to_le_bytes(1))

Values == {to_le_bytes(0), to_le_bytes(1), MAX}

Halt == TokenOpcode("Halt", <<>>)

ConditionalJumps ==
    {"JumpEqual", "JumpNotEqual", "JumpGreater", "JumpGreaterEqual",
     "JumpLess", "JumpLessEqual"}

(* cmp a, b; jXX taken; halt; taken: halt *)
ComparePrograms ==
    { <<TokenOpcode("Compare", <<Immediate(a), Immediate(b)>>),
        TokenOpcode(j, <<Label("taken")>>), Halt,
        TokenLabel("taken"), Halt>>
      : a \in Values, b \in Values, j \in ConditionalJumps }

(* mov a, r0; mov b, r1; op r0, r1; halt *)
ArithmeticPrograms ==
    { <<TokenOpcode("Move", <<Immediate(a), Register(0)>>),
        TokenOpcode("Move", <<Immediate(b), Register(1)>>),
        TokenOpcode(op, <<Register(0), Register(1)>>), Halt>>
      : a \in Values, b \in Values, op \in {"Add", "Subtract", "Divide"} }

Five == Immediate(to_le_bytes(5))

(* Bodies of the subroutine f of: call f; halt; f: body *)
Bodies ==
    { <<TokenOpcode("Return", <<>>)>>,
      <<TokenOpcode("Push", <<Five>>), TokenOpcode("Pop", <<Register(0)>>),
        TokenOpcode("Return", <<>>)>>,
      <<TokenOpcode("Push", <<Five>>), TokenOpcode("Return", <<>>)>>,
      <<TokenOpcode("Pop", <<Register(0)>>), TokenOpcode("Return", <<>>)>>,
      <<TokenOpcode("Pop", <<Register(0)>>),
        TokenOpcode("Unreference", <<Register(0)>>),
        TokenOpcode("Push", <<Register(0)>>), TokenOpcode("Return", <<>>)>>,
      <<TokenOpcode("Call", <<Label("g")>>), TokenOpcode("Return", <<>>),
        TokenLabel("g"), TokenOpcode("Return", <<>>)>> }

CallPrograms ==
    { <<TokenOpcode("Call", <<Label("f")>>), Halt, TokenLabel("f")>> \o body
      : body \in Bodies }
    \cup { <<TokenOpcode("Push", <<Five>>), TokenOpcode("Return", <<>>)>>,
           <<TokenOpcode("Push", <<Five>>), TokenOpcode("Pop", <<Register(0)>>),
             TokenOpcode("Reference", <<Register(0)>>),
             TokenOpcode("Push", <<Register(0)>>),
             TokenOpcode("Return", <<>>), Halt>> }

(* Base and offset pairs of a Reference operand: the stack's top word at  *)
(* 1032 directly, below the base, and across the wrap at 2^64; a word     *)
(* outside the stack; an address that is not word-aligned.                *)
Minus(n) == IWord_negate(to_le_bytes(n))

BaseOffsets ==
    { <<to_le_bytes(1032), to_le_bytes(0)>>,
      <<to_le_bytes(1040), Minus(8)>>,
      <<Minus(8), to_le_bytes(1040)>>,
      <<to_le_bytes(1024), Minus(8)>>,
      <<to_le_bytes(1032), to_le_bytes(1)>> }

Accesses(op) ==
    { TokenOpcode("Move", <<op, Register(1)>>),
      TokenOpcode("Move", <<Immediate(to_le_bytes(1)), op>>),
      TokenOpcode("Add", <<Immediate(to_le_bytes(1)), op>>),
      TokenOpcode("Compare", <<op, Five>>),
      TokenOpcode("Push", <<op>>),
      TokenOpcode("Pop", <<op>>),
      TokenOpcode("Reference", <<op>>),
      TokenOpcode("Jump", <<op>>) }

(* push 5; mov base, r0; ref r0 (or nop); access; halt *)
ReferenceProgramsAt(base, o) ==
    { <<TokenOpcode("Push", <<Five>>),
        TokenOpcode("Move", <<Immediate(base), Register(0)>>),
        tag, access, Halt>>
      : tag \in {TokenOpcode("Reference", <<Register(0)>>),
                 TokenOpcode("NoOperation", <<>>)},
        access \in Accesses(Reference(0, o)) }

ReferencePrograms ==
    UNION { ReferenceProgramsAt(bo[1], bo[2]) : bo \in BaseOffsets }

(* mov a, r0; mov b, r1; add r0, r1; then an instruction that writes with *)
(* flags, after a sum that may have set carry; halt                       *)
AfterSum(a, b, then) ==
    <<TokenOpcode("Move", <<Immediate(a), Register(0)>>),
      TokenOpcode("Move", <<Immediate(b), Register(1)>>),
      TokenOpcode("Add", <<Register(0), Register(1)>>), then, Halt>>

WriteWithFlagsPrograms ==
    { AfterSum(a, b, TokenOpcode(op, <<Register(0), Register(1)>>))
      : a \in Values, b \in Values,
        op \in {"Move", "BitwiseAnd", "BitwiseOr", "BitwiseXor"} }
    \cup { AfterSum(a, b, TokenOpcode("BitwiseNot", <<Register(r)>>))
           : a \in Values, b \in Values, r \in 0..1 }

(* 2^32 and 2^55 *)
TwoTo32 == <<0, 0, 0, 0, 1, 0, 0, 0>>

TwoTo55 == <<0, 0, 0, 0, 0, 0, 128, 0>>

(* mov a, r0; mov b, r1; mul r0, r1; halt *)
MultiplyPrograms ==
    { <<TokenOpcode("Move", <<Immediate(a), Register(0)>>),
        TokenOpcode("Move", <<Immediate(b), Register(1)>>),
        TokenOpcode("Multiply", <<Register(0), Register(1)>>), Halt>>
      : a \in Values \cup {TwoTo32, TwoTo55},
        b \in Values \cup {TwoTo32, TwoTo55} }

(* Shift amounts below 64, from 64, and from 2^32 *)
Amounts ==
    {to_le_bytes(0), to_le_bytes(1), to_le_bytes(63), to_le_bytes(64),
     to_le_bytes(65), TwoTo32, <<64, 0, 0, 0, 1, 0, 0, 0>>, MAX}

(* mov a, r0; mov n, r1; shl r0, r1 or shr r0, r1; halt *)
ShiftPrograms ==
    { <<TokenOpcode("Move", <<Immediate(a), Register(0)>>),
        TokenOpcode("Move", <<Immediate(n), Register(1)>>),
        TokenOpcode(op, <<Register(0), Register(1)>>), Halt>>
      : a \in Values \cup {TwoTo55}, n \in Amounts,
        op \in {"ShiftLeft", "ShiftRight"} }

(* debugcpu 1; debugmem, with the operands its descriptor declares and   *)
(* with those its arm reads                                               *)
DebugPrograms ==
    { <<TokenOpcode("DebugCpu", <<Immediate(to_le_bytes(1))>>), Halt>>,
      <<TokenOpcode("DebugMemory", <<>>), Halt>>,
      <<TokenOpcode("DebugMemory",
                    <<Immediate(to_le_bytes(0)),
                      Immediate(to_le_bytes(WORD_BYTE_SIZE))>>), Halt>> }

One == Immediate(to_le_bytes(1))

(* An immediate where the instruction writes its result *)
ImmediateDestinationPrograms ==
    { <<TokenOpcode(i, <<One, One>>), Halt>>
      : i \in {"Move", "Add", "Subtract", "Multiply", "Divide", "BitwiseAnd",
               "BitwiseOr", "BitwiseXor", "ShiftLeft", "ShiftRight"} }
    \cup { <<TokenOpcode(i, <<One>>), Halt>>
           : i \in {"BitwiseNot", "Pop", "Reference", "Unreference"} }

TwoOperand ==
    {"Add", "Subtract", "Multiply", "Divide", "BitwiseAnd", "BitwiseOr",
     "BitwiseXor", "ShiftLeft", "ShiftRight"}

Pushed == Stack(to_le_bytes(WORD_BYTE_SIZE))

(* push 3; mov 6, r0; mov 3, r1; ref r0 (or nop); ref r1 or ref [sp+8]   *)
(* (or nop); an instruction on a register or the pushed word; halt        *)
TagPrograms ==
    { <<TokenOpcode("Push", <<Immediate(to_le_bytes(3))>>),
        TokenOpcode("Move", <<Immediate(to_le_bytes(6)), Register(0)>>),
        TokenOpcode("Move", <<Immediate(to_le_bytes(3)), Register(1)>>),
        tag0, tag1, then, Halt>>
      : tag0 \in {TokenOpcode("Reference", <<Register(0)>>),
                  TokenOpcode("NoOperation", <<>>)},
        tag1 \in {TokenOpcode("Reference", <<Register(1)>>),
                  TokenOpcode("Reference", <<Pushed>>),
                  TokenOpcode("NoOperation", <<>>)},
        then \in { TokenOpcode(i, <<source, destination>>)
                   : i \in TwoOperand \cup {"Move"},
                     source \in {Register(0), Immediate(to_le_bytes(2))},
                     destination \in {Register(1), Pushed} }
                 \cup { TokenOpcode(i, <<destination>>)
                        : i \in {"BitwiseNot", "Reference", "Unreference"},
                          destination \in {Register(1), Pushed} } }

(* push 5; mov a, r0; cmp r0, 1 leaves the flags clear, both set, or    *)
(* carry alone; then an instruction that is to leave them alone; halt.    *)
(* The same before call and ret, and before a jump.                       *)
AfterCompare(a) ==
    <<TokenOpcode("Push", <<Five>>),
      TokenOpcode("Move", <<Immediate(a), Register(0)>>),
      TokenOpcode("Compare", <<Register(0), One>>)>>

FlagPrograms ==
    { AfterCompare(a) \o <<then, Halt>>
      : a \in Values,
        then \in { TokenOpcode("Push", <<Register(0)>>),
                   TokenOpcode("Pop", <<Register(1)>>),
                   TokenOpcode("Pop", <<Pushed>>),
                   TokenOpcode("Reference", <<Register(0)>>),
                   TokenOpcode("Reference", <<Pushed>>),
                   TokenOpcode("Unreference", <<Register(0)>>),
                   TokenOpcode("NoOperation", <<>>),
                   TokenOpcode("Return", <<>>),
                   TokenOpcode("Compare", <<Pushed, Register(0)>>),
                   TokenOpcode("Compare", <<Register(1), Register(0)>>) } }
    \cup { AfterCompare(a)
             \o <<TokenOpcode("Call", <<Label("f")>>), Halt, TokenLabel("f"),
                  TokenOpcode("Return", <<>>)>>
           : a \in Values }
    \cup { AfterCompare(a)
             \o <<TokenOpcode("Jump", <<Label("f")>>),
                  TokenOpcode("NoOperation", <<>>), TokenLabel("f"), Halt>>
           : a \in Values }

(* More pushes and calls than the stack has words, and pops and a ret   *)
(* on the stack as the loader left it or emptied again                    *)
Pushes(n) == [i \in 1..n |-> TokenOpcode("Push", <<Five>>)]

StackPrograms ==
    { Pushes(n) \o <<then, Halt>>
      : n \in 0..(StackWords + 1),
        then \in { TokenOpcode("Push", <<Register(0)>>),
                   TokenOpcode("Pop", <<Register(0)>>),
                   TokenOpcode("Return", <<>>),
                   TokenOpcode("NoOperation", <<>>) } }
    \cup { Pushes(n)
             \o <<TokenOpcode("Call", <<Label("f")>>), Halt, TokenLabel("f"),
                  TokenOpcode("Call", <<Label("g")>>), Halt, TokenLabel("g"),
                  TokenOpcode("Return", <<>>)>>
           : n \in 0..StackWords }
    \cup { <<TokenOpcode("Push", <<Five>>), TokenOpcode("Pop", <<Register(0)>>),
             then, Halt>>
           : then \in { TokenOpcode("Pop", <<Register(1)>>),
                        TokenOpcode("Return", <<>>) } }

Programs ==
    ComparePrograms \cup ArithmeticPrograms \cup CallPrograms
    \cup ReferencePrograms \cup WriteWithFlagsPrograms
    \cup MultiplyPrograms \cup ShiftPrograms \cup DebugPrograms
    \cup ImmediateDestinationPrograms \cup TagPrograms \cup FlagPrograms
    \cup StackPrograms

MaxSteps == 8

NoRun ==
    [op |-> "run", ok |-> TRUE, running |-> TRUE, error |-> "",
     opcode |-> NoOpcode, program |-> <<>>, label_values |-> <<>>,
     cpu |-> CpuState_default, mem |-> Memory_new(0), frames |-> <<>>,
     open |-> <<>>]

(* The calls that have not returned, innermost last: where the stack     *)
(* pointer was at the call, the address after the call instruction, and   *)
(* whether the stack at and above the pushed word was left alone since.   *)
(* r is the result of the step taken from cpu and mem.                    *)
next_instruction(cpu, mem) ==
    Opcode_decode(ip_reader(cpu, mem)).reader.cpu.instruction_pointer

frames_after(frames, cpu, mem, r) ==
    IF ~r.ok THEN frames
    ELSE IF r.opcode.instruction = "Call"
    THEN Append(frames,
                [stack_pointer |-> cpu.stack_pointer,
                 next |-> next_instruction(cpu, mem),
                 intact |-> TRUE])
    ELSE IF frames = <<>> THEN frames
    ELSE IF r.opcode.instruction = "Return"
    THEN SubSeq(frames, 1, Len(frames) - 1)
    ELSE IF UWord_ge(r.cpu.stack_pointer, frames[Len(frames)].stack_pointer)
    THEN [frames EXCEPT ![Len(frames)].intact = FALSE]
    ELSE frames

(* last keeps the program, the labels' values, the opcode of the latest   *)
(* step, its result, the interpreter it started from and the calls that  *)
(* were open before it.                                                   *)
InitRun ==
    /\ \E tokens \in Programs, fill \in FillBytes :
          \E image \in {encode(tokens)} :
             /\ image.ok
             /\ \E r \in {run_start(image.enc.output, fill)} :
                   /\ r.ok
                   /\ memory = r.mem
                   /\ cpu_state = r.cpu
                   /\ last = [NoRun EXCEPT
                                !.program = tokens,
                                !.label_values = image.enc.label_values,
                                !.cpu = r.cpu, !.mem = r.mem]
    /\ ops = 0

Step ==
    /\ ops < MaxSteps /\ last.ok /\ last.running
    /\ \E r \in {step(cpu_state, memory)} :
          /\ cpu_state' = r.cpu
          /\ memory' = r.mem
          /\ last' = [last EXCEPT
                        !.op = "step", !.ok = r.ok,
                        !.running = r.ok /\ r.running, !.error = r.error,
                        !.opcode = r.opcode,
                        !.cpu = cpu_state, !.mem = memory,
                        !.frames = frames_after(@, cpu_state, memory, r),
                        !.open = last.frames]
    /\ ops' = ops + 1

NextRun == Step

SpecRun == InitRun /\ [][NextRun]_vars

---------------------------------------------------------------------------
(* The assembler's encoder on token lists, and the disassembler's loop    *)
(* (main.rs, disassemble) on the bytes of a file: Opcode::decode at the   *)
(* cursor until the end of the buffer or an error.                        *)

(* Words with 0 to 8 significant bytes *)
Magnitudes ==
    {to_le_bytes(0), to_le_bytes(1), to_le_bytes(255),
     <<0, 1, 0, 0, 0, 0, 0, 0>>, <<7, 0, 9, 0, 0, 0, 0, 0>>,
     <<0, 0, 0, 128, 0, 0, 0, 0>>, <<1, 2, 3, 4, 5, 0, 0, 0>>,
     <<0, 0, 0, 0, 0, 255, 0, 0>>, <<255, 255, 255, 255, 255, 255, 255, 0>>,
     <<0, 0, 0, 0, 0, 0, 0, 1>>, <<255, 255, 255, 255, 255, 255, 255, 127>>}

(* The operands the parser can produce for these magnitudes *)
OperandsToEncode ==
    {Immediate(v) : v \in Magnitudes}
    \cup {Immediate(IWord_negate(v)) : v \in Magnitudes}
    \cup {Reference(r, v) : r \in 0..(REGISTER_NUM - 1), v \in Magnitudes}
    \cup {Reference(r, IWord_negate(v))
             : r \in 0..(REGISTER_NUM - 1), v \in Magnitudes}
    \cup {Stack(v) : v \in Magnitudes \cup {MAX}}
    \cup {Register(r) : r \in 0..(REGISTER_NUM - 1)}

(* push operand *)
OperandPrograms ==
    { <<TokenOpcode("Push", <<op>>)>> : op \in OperandsToEncode }

Text == <<104, 105, 33>>

(* Values of a Define: small, the largest of 7 bytes, 2^56 and -1 *)
DefineValues ==
    {to_le_bytes(5), <<255, 255, 255, 255, 255, 255, 255, 0>>,
     <<0, 0, 0, 0, 0, 0, 0, 1>>, MAX}

(* Uses of a label before and after its definition, of a Define and of a  *)
(* string's length label                                                  *)
LabelPrograms ==
    { <<TokenLabel("start"), TokenOpcode("Jump", <<Label("end")>>),
        TokenLabel("end"), Halt>>,
      <<TokenLabel("start"), TokenOpcode("Jump", <<Label("start")>>), Halt>>,
      <<TokenOpcode("Call", <<Label("f")>>),
        TokenOpcode("Jump", <<Label("f")>>), TokenAlign(8), TokenLabel("f"),
        TokenOpcode("Return", <<>>)>>,
      <<TokenOpcode("Push", <<Label("n")>>), Halt,
        TokenString(Some("n"), Text)>>,
      <<TokenString(NoLabel, Text), TokenLabel("l"),
        TokenOpcode("Move", <<Label("l"), Register(0)>>)>> }
    \cup { <<TokenDefine("c", v), TokenOpcode("Push", <<Label("c")>>)>>
           : v \in DefineValues }
    \cup { <<TokenOpcode("Push", <<Label("c")>>), TokenDefine("c", v)>>
           : v \in DefineValues }

(* The three ways of defining the name a *)
Definitions ==
    {TokenLabel("a"), TokenDefine("a", to_le_bytes(5)),
     TokenString(Some("a"), Text)}

Fillers ==
    {<<>>, <<Halt>>, <<TokenOpcode("Jump", <<Label("a")>>)>>,
     <<TokenOpcode("Jump", <<Label("x")>>)>>, <<TokenAlign(1)>>,
     <<TokenLabel("b")>>}

(* Zero, one or two definitions of a among other tokens *)
DefinitionPrograms ==
    { f \o <<d1>> \o g \o <<d2>> : f \in Fillers, g \in Fillers,
                                    d1 \in Definitions, d2 \in Definitions }
    \cup { f \o <<d1>> \o g : f \in Fillers, g \in Fillers,
                              d1 \in Definitions }
    \cup { f \o g : f \in Fillers, g \in Fillers }

TokenLists == OperandPrograms \cup LabelPrograms \cup DefinitionPrograms

(* Files for the disassembler: every first byte, followed by up to        *)
(* MaxOperands encoded operands: the immediates 0 and -1, r1, [r2 + 0],   *)
(* [sp + 0] and an immediate whose value byte may be missing.             *)
MaxOperands == 3

EncodedOperands ==
    {<<0>>, <<9, 1>>, <<80>>, <<160>>, <<192>>, <<1>>}

RECURSIVE OperandBytes(_)
OperandBytes(n) ==
    IF n = 0 THEN {<<>>}
    ELSE OperandBytes(n - 1)
         \cup { t \o o : t \in OperandBytes(n - 1), o \in EncodedOperands }

Files == { <<b>> \o t : b \in 0..255, t \in OperandBytes(MaxOperands) }

NoAsm ==
    [op |-> "tokens", ok |-> TRUE, error |-> "", tokens |-> <<>>,
     output |-> <<>>, label_values |-> <<>>, fixups |-> <<>>,
     start |-> 0, position |-> 0, opcode |-> NoOpcode]

InitAsm ==
    /\ memory = Memory_new(0)
    /\ cpu_state = CpuState_default
    /\ ops = 0
    /\ \/ \E tokens \in TokenLists : last = [NoAsm EXCEPT !.tokens = tokens]
       \/ \E file \in Files :
             last = [NoAsm EXCEPT !.op = "file", !.output = file]

Encode ==
    /\ last.op = "tokens"
    /\ \E r \in {encode(last.tokens)} :
          last' = [last EXCEPT
                     !.op = "encode", !.ok = r.ok, !.error = r.error,
                     !.output = r.enc.output,
                     !.label_values = r.enc.label_values,
                     !.fixups = r.enc.fixups]
    /\ UNCHANGED <<memory, cpu_state, ops>>

Disassemble ==
    /\ last.op \in {"file", "encode", "decode"}
    /\ last.ok
    /\ last.position < Len(last.output)
    /\ \E r \in {Opcode_decode([Cursor(last.output) EXCEPT
                                  !.pos = last.position])} :
          last' = [last EXCEPT
                     !.op = "decode", !.ok = r.ok, !.error = r.error,
                     !.opcode = r.opcode, !.start = last.position,
                     !.position = r.reader.pos]
    /\ UNCHANGED <<memory, cpu_state, ops>>

NextAsm == Encode \/ Disassemble

SpecAsm == InitAsm /\ [][NextAsm]_vars

---------------------------------------------------------------------------
(* Properties of the interpreter's instructions, checked on SpecRun.      *)

(* (a + b) mod 2^64 and (a - b) mod 2^64, a byte at a time with the carry *)
(* handed on                                                              *)
RECURSIVE SumMod(_, _, _, _)
SumMod(a, b, k, c) ==
    IF k > WORD_BYTE_SIZE THEN <<>>
    ELSE <<(a[k] + b[k] + c) % 256>>
         \o SumMod(a, b, k + 1, (a[k] + b[k] + c) \div 256)

RECURSIVE DiffMod(_, _, _, _)
DiffMod(a, b, k, c) ==
    IF k > WORD_BYTE_SIZE THEN <<>>
    ELSE <<(a[k] - b[k] - c + 256) % 256>>
         \o DiffMod(a, b, k + 1, IF a[k] - b[k] - c < 0 THEN 1 ELSE 0)

(* The magnitude of a negative signed offset, from its complement *)
Magnitude(x) == SumMod([k \in 1..WORD_BYTE_SIZE |-> 255 - x[k]],
                       to_le_bytes(1), 1, 0)

(* (base + offset) mod 2^64 for a signed offset *)
BasePlusOffset(base, o) ==
    IF o[WORD_BYTE_SIZE] >= 128 THEN DiffMod(base, Magnitude(o), 1, 0)
    ELSE SumMod(base, o, 1, 0)

ReferenceOperands ==
    { Reference(r, bo[2]) : r \in 0..1, bo \in BaseOffsets }

WrittenWords == {DataWord(to_le_bytes(1), FALSE), DataWord(MAX, TRUE)}

SameRegistersFlags(a, b) ==
    /\ a.registers = b.registers
    /\ a.zero_flag = b.zero_flag
    /\ a.carry_flag = b.carry_flag

(* The accesses through a Reference operand in a state of the interpreter *)
ReferenceAccess(cpu, mem, op) ==
    IF ~cpu.registers[op.register].is_reference
    THEN /\ ~Interpreter_read(cpu, mem, op).ok
         /\ Interpreter_read(cpu, mem, op).error = NotReference
         /\ \A w \in WrittenWords :
               /\ ~Interpreter_write(cpu, mem, op, w).ok
               /\ Interpreter_write(cpu, mem, op, w).error = NotReference
               /\ Interpreter_write(cpu, mem, op, w).cpu = cpu
               /\ Interpreter_write(cpu, mem, op, w).mem = mem
    ELSE \E addr \in {BasePlusOffset(cpu.registers[op.register].value,
                                     op.value)} :
            /\ Interpreter_read(cpu, mem, op).ok
                  = get_data_word(mem, addr).ok
            /\ Interpreter_read(cpu, mem, op).word
                  = get_data_word(mem, addr).word
            /\ \A w \in WrittenWords :
                  /\ Interpreter_write(cpu, mem, op, w).ok
                        = set_data_word(mem, addr, w).ok
                  /\ Interpreter_write(cpu, mem, op, w).mem
                        = set_data_word(mem, addr, w).mem
                  /\ Interpreter_write(cpu, mem, op, w).cpu = cpu

HasReferenceOperand(opcode) ==
    \E i \in DOMAIN opcode.operands : opcode.operands[i].kind = "Reference"

(* The Reference operand of an opcode that has one *)
ReferenceOperand(opcode) ==
    opcode.operands[CHOOSE i \in DOMAIN opcode.operands :
                       opcode.operands[i].kind = "Reference"]

Stepped == last.op = "step"

LabelValue(l) == last.label_values[l]

(* The encoded length of an opcode with one label operand *)
LabelOpcodeLength == 1 + 1 + (WORD_BYTE_SIZE - 1)

(* The word a ret pops: the one above the stack pointer before the step *)
PoppedByReturn ==
    get_data_word(last.mem, wrapping_add(last.cpu.stack_pointer,
                                         WORD_BYTE_SIZE))

TopOpen == last.open[Len(last.open)]

(* C12: a call that succeeds has written, at the stack pointer, the        *)
(* address of the instruction after the call tagged as a reference, moved *)
(* the stack pointer down a word and set IP to the target.  A ret pops    *)
(* the word above the stack pointer: tagged, IP becomes its value;        *)
(* untagged, the step fails with "Tried to return from a non-reference    *)
(* data word".  A ret that finds the stack as the latest open call left   *)
(* it (every push since matched by a pop) succeeds and resumes at the     *)
(* instruction after that call.                                           *)
C12_CallReturn ==
    /\ (Stepped /\ last.opcode.instruction = "Call" /\ last.ok)
       => /\ get_data_word(memory, last.cpu.stack_pointer).word
                = DataWord(wrapping_add(last.cpu.instruction_pointer,
                                        LabelOpcodeLength), TRUE)
          /\ cpu_state.stack_pointer
                = wrapping_sub(last.cpu.stack_pointer, WORD_BYTE_SIZE)
          /\ cpu_state.instruction_pointer = last.opcode.operands[1].value
          /\ \E l \in DOMAIN last.label_values :
                cpu_state.instruction_pointer = LabelValue(l)
    /\ (Stepped /\ last.opcode.instruction = "Return" /\ PoppedByReturn.ok)
       => IF PoppedByReturn.word.is_reference
          THEN /\ last.ok
               /\ cpu_state.instruction_pointer = PoppedByReturn.word.value
               /\ cpu_state.stack_pointer
                     = wrapping_add(last.cpu.stack_pointer, WORD_BYTE_SIZE)
          ELSE /\ ~last.ok
               /\ last.error = NonReferenceReturn
    /\ (Stepped /\ last.opcode.instruction = "Return" /\ last.open # <<>>
        /\ TopOpen.intact
        /\ wrapping_add(last.cpu.stack_pointer, WORD_BYTE_SIZE)
              = TopOpen.stack_pointer)
       => /\ last.ok
          /\ cpu_state.instruction_pointer = TopOpen.next
          /\ cpu_state.stack_pointer = TopOpen.stack_pointer

(* The subroutine that pushes 5 and pops it has returned to the halt      *)
(* after the call                                                         *)
C12_Witness ==
    /\ Stepped /\ last.opcode.instruction = "Return" /\ last.ok
    /\ last.program[4] = TokenOpcode("Push", <<Five>>)
    /\ Len(last.open) = 1 /\ TopOpen.intact
    /\ cpu_state.instruction_pointer = to_le_bytes(LabelOpcodeLength)
    /\ cpu_state.registers[0] = DataWord(to_le_bytes(5), FALSE)

(* a < b as unsigned 64-bit values: the most significant byte that        *)
(* differs decides                                                        *)
Less(a, b) ==
    \E k \in 1..WORD_BYTE_SIZE :
       /\ a[k] < b[k]
       /\ \A j \in (k + 1)..WORD_BYTE_SIZE : a[j] = b[j]

(* When the conditional jump j after cmp a, b is to be taken *)
Taken(j, a, b) ==
    CASE j = "JumpEqual" -> a = b
      [] j = "JumpNotEqual" -> a # b
      [] j = "JumpGreater" -> Less(b, a)
      [] j = "JumpGreaterEqual" -> ~Less(a, b)
      [] j = "JumpLess" -> Less(a, b)
      [] OTHER -> ~Less(b, a)

(* The program is cmp a, b; jXX taken; halt; taken: halt *)
Comparing == last.program \in ComparePrograms

Compared(i) == last.program[1].operands[i].value

(* C13: after cmp a, b the zero flag is a = b and the carry flag is        *)
(* a >= b (unsigned); the conditional jump that follows sets IP to its    *)
(* target exactly when its relation holds between a and b (jeq =, jne #,  *)
(* jgt >, jge >=, jlt <, jle <=) and otherwise leaves IP at the           *)
(* instruction after the jump.                                            *)
C13_CompareJump ==
    /\ (Stepped /\ last.opcode.instruction = "Compare" /\ Comparing)
       => /\ last.ok
          /\ cpu_state.zero_flag = (Compared(1) = Compared(2))
          /\ cpu_state.carry_flag = ~Less(Compared(1), Compared(2))
    /\ (Stepped /\ last.opcode.instruction \in ConditionalJumps /\ Comparing)
       => /\ last.ok
          /\ LabelValue("taken")
                # wrapping_add(last.cpu.instruction_pointer,
                               LabelOpcodeLength)
          /\ cpu_state.instruction_pointer
                = IF Taken(last.opcode.instruction, Compared(1), Compared(2))
                  THEN LabelValue("taken")
                  ELSE wrapping_add(last.cpu.instruction_pointer,
                                    LabelOpcodeLength)

(* After cmp 2^64 - 1, 1 the jump jgt was taken *)
C13_Witness ==
    /\ Stepped /\ Comparing
    /\ last.opcode.instruction = "JumpGreater"
    /\ Compared(1) = MAX /\ Compared(2) = to_le_bytes(1)
    /\ cpu_state.instruction_pointer = LabelValue("taken")

(* The program is mov a, r0; mov b, r1; op r0, r1; halt: a is the source  *)
(* and b the destination's value before the instruction                   *)
Computing == last.program \in ArithmeticPrograms

Source == last.program[1].operands[1].value

Destination == last.program[2].operands[1].value

(* C14: add stores (dst + src) mod 2^64 and sub stores (dst - src) mod     *)
(* 2^64 in the destination; the carry flag is set iff the exact sum is    *)
(* 2^64 or more, or the exact difference is negative; the zero flag is    *)
(* set iff the stored word is 0.  add(2^64 - 1, 1) stores 0 with carry    *)
(* and sub(0, 1) stores 2^64 - 1 with carry.                              *)
C14_AddSub ==
    /\ (Stepped /\ Computing /\ last.opcode.instruction = "Add")
       => /\ last.ok
          /\ cpu_state.registers[1].value
                = SumMod(Destination, Source, 1, 0)
          /\ cpu_state.carry_flag
                = Less(SumMod(Destination, Source, 1, 0), Source)
          /\ cpu_state.zero_flag
                = (cpu_state.registers[1].value = to_le_bytes(0))
          /\ (Destination = MAX /\ Source = to_le_bytes(1))
             => /\ cpu_state.registers[1].value = to_le_bytes(0)
                /\ cpu_state.carry_flag
    /\ (Stepped /\ Computing /\ last.opcode.instruction = "Subtract")
       => /\ last.ok
          /\ cpu_state.registers[1].value
                = DiffMod(Destination, Source, 1, 0)
          /\ cpu_state.carry_flag = Less(Destination, Source)
          /\ cpu_state.zero_flag
                = (cpu_state.registers[1].value = to_le_bytes(0))
          /\ (Destination = to_le_bytes(0) /\ Source = to_le_bytes(1))
             => /\ cpu_state.registers[1].value = MAX
                /\ cpu_state.carry_flag

(* sub with destination 0 and source 1 has stored 2^64 - 1 with carry *)
C14_Witness ==
    /\ Stepped /\ Computing /\ last.opcode.instruction = "Subtract"
    /\ Destination = to_le_bytes(0) /\ Source = to_le_bytes(1)
    /\ cpu_state.registers[1].value = MAX
    /\ cpu_state.carry_flag /\ ~cpu_state.zero_flag

(* C15: div with a source of 0 ends the run with an error: the             *)
(* destination keeps its word and the flags keep their values.  With a    *)
(* source of 1 the destination is unchanged, with a source of 2^64 - 1    *)
(* the quotient is 1 for a destination of 2^64 - 1 and 0 otherwise.       *)
C15_DivideByZero ==
    (Stepped /\ Computing /\ last.opcode.instruction = "Divide")
    => IF Source = to_le_bytes(0)
       THEN /\ ~last.ok /\ ~last.running
            /\ cpu_state.registers = last.cpu.registers
            /\ cpu_state.registers[1].value = Destination
            /\ cpu_state.zero_flag = last.cpu.zero_flag
            /\ cpu_state.carry_flag = last.cpu.carry_flag
            /\ memory = last.mem
       ELSE /\ last.ok
            /\ cpu_state.registers[1].value
                  = IF Source = to_le_bytes(1) THEN Destination
                    ELSE IF Destination = MAX THEN to_le_bytes(1)
                    ELSE to_le_bytes(0)
            /\ ~cpu_state.carry_flag

(* div of the destination 1 by the source 0 has ended the run *)
C15_Witness ==
    /\ Stepped /\ Computing /\ last.opcode.instruction = "Divide"
    /\ Source = to_le_bytes(0) /\ Destination = to_le_bytes(1)
    /\ ~last.ok /\ last.error = "panic"
    /\ cpu_state.registers[1].value = to_le_bytes(1)
    /\ ~cpu_state.zero_flag

---------------------------------------------------------------------------
(* Properties of the encoder and of the decoder, checked on SpecAsm.      *)

(* The number of bytes up to the most significant one that is not 0 *)
SignificantBytes(w) ==
    IF w = to_le_bytes(0) THEN 0
    ELSE CHOOSE k \in 1..WORD_BYTE_SIZE :
            /\ w[k] # 0
            /\ \A j \in (k + 1)..WORD_BYTE_SIZE : w[j] = 0

(* The absolute value of an operand's value: a Stack offset is unsigned *)
AbsoluteValue(op) ==
    IF op.kind # "Stack" /\ op.value[WORD_BYTE_SIZE] >= 128
    THEN Magnitude(op.value)
    ELSE op.value

(* The token list is push operand *)
EncodingOperand == last.tokens \in OperandPrograms

Encoded == last.tokens[1].operands[1]

(* C16: an operand whose absolute value has k <= 7 significant bytes is    *)
(* encoded as a first byte with value_size k followed by exactly the k    *)
(* low bytes of the absolute value (none for 0), and Operand::decode of   *)
(* these bytes returns the operand: its addressing mode, its register and *)
(* its signed value.                                                      *)
C16_OperandRoundTrip ==
    (EncodingOperand /\ SignificantBytes(AbsoluteValue(Encoded)) <= 7)
    => /\ last.op = "encode"
          => /\ last.ok
             /\ Len(last.output)
                   = 2 + SignificantBytes(AbsoluteValue(Encoded))
             /\ last.output[2] % 8
                   = SignificantBytes(AbsoluteValue(Encoded))
             /\ SubSeq(last.output, 3, Len(last.output))
                   = SubSeq(AbsoluteValue(Encoded), 1,
                            SignificantBytes(AbsoluteValue(Encoded)))
       /\ last.op = "decode"
          => /\ last.ok
             /\ last.opcode.instruction = "Push"
             /\ last.opcode.operands = <<Encoded>>
             /\ last.position = Len(last.output)

(* [r2 - 0x0504030201] was encoded in 5 value bytes and decoded again *)
C16_Witness ==
    /\ EncodingOperand /\ last.op = "decode" /\ last.ok
    /\ Encoded = Reference(2, IWord_negate(<<1, 2, 3, 4, 5, 0, 0, 0>>))
    /\ last.opcode.operands[1] = Encoded
    /\ Len(last.output) = 7

(* The opcode the disassembler decoded last started at this byte *)
Decoded == last.op = "decode"

FirstByte == last.output[last.start + 1]

DefinedId(id) == id \in 0..28 \/ id \in 60..63

(* The instruction with the id of the first byte, and its declared modes *)
InstructionOf(b) ==
    CHOOSE i \in Instructions : InstructionValues[i] = b % 64

Declared(b) == descriptors[InstructionOf(b)]

(* The offsets at which the n operands after the first byte start, as far *)
(* as the file has their first bytes                                      *)
RECURSIVE OperandStarts(_, _, _)
OperandStarts(bytes, pos, n) ==
    IF n = 0 \/ pos >= Len(bytes) THEN <<>>
    ELSE <<pos>> \o OperandStarts(bytes, pos + 1 + (bytes[pos + 1] % 8),
                                  n - 1)

Starts == OperandStarts(last.output, last.start + 1, FirstByte \div 64)

(* All operands the first byte announces are in the file, whole *)
OperandsComplete ==
    /\ Len(Starts) = FirstByte \div 64
    /\ \A i \in DOMAIN Starts :
          Starts[i] + 1 + (last.output[Starts[i] + 1] % 8)
             <= Len(last.output)

(* Operand i of the file is an Immediate *)
ImmediateAt(i) == last.output[Starts[i] + 1] \div 64 = 0

ImmediateInReadWrite ==
    \E i \in DOMAIN Starts :
       /\ i <= Len(Declared(FirstByte))
       /\ Declared(FirstByte)[i] = RW
       /\ ImmediateAt(i)

Returned ==
    /\ last.ok
    /\ last.opcode.instruction = InstructionOf(FirstByte)
    /\ Len(last.opcode.operands) = Len(Declared(FirstByte))

(* C17 as stated: the first byte alone decides.  An undefined id or an    *)
(* operand count other than the declared one is an error, and every       *)
(* other first byte returns its instruction with the declared number of   *)
(* operands.                                                              *)
C17_FirstByteDecides ==
    Decoded
    => IF ~DefinedId(FirstByte % 64) THEN ~last.ok
       ELSE IF FirstByte \div 64 # Len(Declared(FirstByte)) THEN ~last.ok
       ELSE Returned

(* C17: Opcode::decode returns an error for a first byte whose low six     *)
(* bits are not a defined instruction id and for one whose high two bits  *)
(* differ from the declared operand count.  For every other first byte it *)
(* returns that instruction with exactly the declared number of operands  *)
(* if the operands are in the input whole and no Immediate stands in a    *)
(* read/write position, and an error if not.                              *)
C17_FirstByteAndOperandsDecide ==
    Decoded
    => IF ~DefinedId(FirstByte % 64)
       THEN ~last.ok /\ last.error = "no instruction"
       ELSE IF FirstByte \div 64 # Len(Declared(FirstByte))
       THEN ~last.ok /\ last.error \in {"operand count", "read"}
       ELSE IF OperandsComplete /\ ~ImmediateInReadWrite THEN Returned
       ELSE ~last.ok /\ last.error \in {"operand mode", "read"}

(* The file 57 00, pop with the immediate 0, was refused although the id  *)
(* is defined and the count is the declared one                           *)
C17_Witness ==
    /\ Decoded /\ last.start = 0
    /\ last.output = <<87, 0>>
    /\ ~last.ok /\ last.error = "operand mode"

(* The opcode the disassembler decoded last has a defined id, the declared *)
(* number of operands, and all of them in the file                        *)
WellFormed ==
    /\ Decoded
    /\ DefinedId(FirstByte % 64)
    /\ FirstByte \div 64 = Len(Declared(FirstByte))
    /\ OperandsComplete

(* Operand i of the file is a Register, a Reference or a Stack operand *)
ReadWriteAt(i) == last.output[Starts[i] + 1] \div 64 \in {1, 2, 3}

(* C18 as stated: an opcode is rejected exactly when some read/write      *)
(* position holds an Immediate.                                           *)
C18_RejectedExactlyForImmediate ==
    Decoded
    => (~last.ok <=> (DefinedId(FirstByte % 64) /\ ImmediateInReadWrite))

(* C18: among the opcodes with a defined id, the declared number of       *)
(* operands and all operands in the input, Opcode::decode rejects an      *)
(* opcode exactly when some operand position declared read/write holds an *)
(* Immediate; Register, Reference and Stack operands are accepted in      *)
(* read-only and in read/write positions.                                 *)
C18_OperandModes ==
    WellFormed
    => /\ ~last.ok <=> ImmediateInReadWrite
       /\ ~last.ok => last.error = "operand mode"
       /\ (\A i \in DOMAIN Starts : ReadWriteAt(i))
          => /\ last.ok
             /\ \A i \in DOMAIN Starts :
                   last.opcode.operands[i].kind
                      \in {"Register", "Reference", "Stack"}

(* A move whose read-only source is not an Immediate was accepted *)
C18_Witness ==
    /\ WellFormed /\ last.ok
    /\ Declared(FirstByte) = <<RO, RW>>
    /\ ReadWriteAt(1) /\ ReadWriteAt(2)
    /\ last.opcode.operands[1].kind \in {"Register", "Reference", "Stack"}

(* The label operands of the encoded output: the offsets of their value   *)
(* bytes, as the encoder recorded them                                    *)
LabelOperands == DOMAIN last.fixups

ValueOfLabelAt(o) == last.label_values[last.fixups[o]]

(* The 7 value bytes at offset o, as a word *)
SevenBytesAt(o) ==
    SubSeq(last.output, o + 1, o + (WORD_BYTE_SIZE - 1)) \o <<0>>

(* C19: for every label operand the encoder emits a first byte with       *)
(* addressing mode immediate, sign 0 and value_size 7, followed by 7      *)
(* value bytes that hold the label's value in little-endian after the     *)
(* fixup pass, and decoding the operand yields the label's value, whether *)
(* the label is defined before or after its use.                          *)
C19_LabelOperand ==
    /\ (last.op = "encode" /\ last.ok)
       => \A o \in LabelOperands :
             /\ last.output[o] = 7
             /\ Len(last.output) >= o + (WORD_BYTE_SIZE - 1)
             /\ SevenBytesAt(o) = ValueOfLabelAt(o)
    /\ (Decoded /\ last.ok /\ last.tokens # <<>>)
       => \A i \in DOMAIN Starts :
             (Starts[i] + 1) \in LabelOperands
             => last.opcode.operands[i]
                   = Immediate(ValueOfLabelAt(Starts[i] + 1))

(* The names a token defines *)
DefinedBy(t) ==
    IF t.kind \in {"Label", "Define"} THEN {t.label}
    ELSE IF t.kind = "String" /\ t.length_label.some
    THEN {t.length_label.value}
    ELSE {}

(* The names the operands of a token reference *)
ReferencedBy(t) ==
    IF t.kind = "Opcode"
    THEN {t.operands[k].label :
            k \in {j \in DOMAIN t.operands : t.operands[j].kind = "Label"}}
    ELSE {}

(* Token j defines a name that an earlier token defined *)
SecondDefinition(tokens, j) ==
    \E i \in 1..(j - 1) : DefinedBy(tokens[i]) \cap DefinedBy(tokens[j]) # {}

DefinedTwice(tokens) == \E j \in DOMAIN tokens : SecondDefinition(tokens, j)

UndefinedReference(tokens) ==
    \E i \in DOMAIN tokens :
       \E n \in ReferencedBy(tokens[i]) :
          \A j \in DOMAIN tokens : n \notin DefinedBy(tokens[j])

(* A token the encoder refuses whatever the names are: an alignment of 0  *)
(* or 1, or an operand value of 8 bytes                                    *)
Refused(t) ==
    \/ t.kind = "Align" /\ t.alignment <= 1
    \/ /\ t.kind = "Opcode"
       /\ \E k \in DOMAIN t.operands :
             /\ t.operands[k].kind \in {"Immediate", "Reference", "Stack"}
             /\ SignificantBytes(AbsoluteValue(t.operands[k])) = 8

(* No token before token j is refused *)
NoneRefusedBefore(tokens, j) ==
    \A k \in 1..(j - 1) : ~Refused(tokens[k])

(* C20 as stated: a name defined twice always ends in the redefinition    *)
(* error, and a reference to a name no token defines always ends in the   *)
(* unresolved-label error.                                                *)
C20_AlwaysThatError ==
    last.op = "encode"
    => /\ DefinedTwice(last.tokens)
          => ~last.ok /\ last.error = Redefinition
       /\ UndefinedReference(last.tokens)
          => ~last.ok /\ last.error = LabelNotFound

(* C20: encode fails whenever a name is defined twice by any combination  *)
(* of label definitions, Define directives and String length labels, and  *)
(* the error is the redefinition error unless an earlier token was        *)
(* refused; encode fails whenever an operand references a name that no    *)
(* token defines, and the error is the unresolved-label error unless a    *)
(* token was refused or a name was defined twice.                         *)
C20_RedefinitionAndUnresolved ==
    last.op = "encode"
    => /\ DefinedTwice(last.tokens)
          => /\ ~last.ok
             /\ (\E j \in DOMAIN last.tokens :
                    /\ SecondDefinition(last.tokens, j)
                    /\ NoneRefusedBefore(last.tokens, j))
                => last.error = Redefinition
       /\ UndefinedReference(last.tokens)
          => /\ ~last.ok
             /\ (/\ ~DefinedTwice(last.tokens)
                 /\ NoneRefusedBefore(last.tokens, Len(last.tokens) + 1))
                => last.error = LabelNotFound

(* A label and a string's length label of the same name were refused as a *)
(* redefinition                                                           *)
C20_Witness ==
    /\ last.op = "encode"
    /\ \E i, j \in DOMAIN last.tokens :
          /\ i < j
          /\ last.tokens[i].kind = "Label"
          /\ last.tokens[j].kind = "String"
          /\ DefinedBy(last.tokens[i]) = DefinedBy(last.tokens[j])
    /\ ~last.ok /\ last.error = Redefinition

---------------------------------------------------------------------------
(* VirtualAddressMapper on its own, driven through map and unmap from     *)
(* VirtualAddressMapper::new.  memory.virtual_mapper is the mapper.  A    *)
(* sum that is carried past 2^64 ends the process in a build with         *)
(* overflow checks (panicked) and wraps in a build without.  last keeps   *)
(* the bases returned so far, the base returned before the latest call,   *)
(* the sizes asked for and whether a base was ever requested.             *)

MaxMaps == 4

MapSizes == {0, 1025, 16 * 1024}

(* No base, acceptable and misaligned bases, and the last page below 2^64 *)
MapBases ==
    {None, Some(0), Some(8), Some(20 * VIRTUAL_PAGE_SIZE),
     Some(0 - VIRTUAL_PAGE_SIZE)}

NoMap ==
    [op |-> "new", ok |-> TRUE, panicked |-> FALSE, size |-> 0,
     base |-> None, addr |-> 0, block |-> 0, returned |-> {},
     previous |-> None, sizes |-> {}, requested |-> FALSE,
     before |-> VirtualAddressMapper_new]

InitMapper ==
    /\ memory = Memory_new(0)
    /\ cpu_state = CpuState_default
    /\ last = NoMap
    /\ ops = 0

Map(size, preferred_base, overflow_checks) ==
    /\ ops < MaxMaps
    /\ ~last.panicked
    /\ \E r \in {VirtualAddressMapper_map(memory.virtual_mapper, size,
                                           ops + 1, preferred_base)} :
          /\ overflow_checks => r.overflow
          /\ memory' = IF r.overflow /\ overflow_checks THEN memory
                       ELSE [memory EXCEPT !.virtual_mapper = r.vm]
          /\ last' = [NoMap EXCEPT
                        !.op = "map", !.ok = r.ok,
                        !.panicked = (r.overflow /\ overflow_checks),
                        !.size = size, !.base = preferred_base,
                        !.addr = r.addr, !.block = r.block,
                        !.returned =
                            IF r.ok /\ ~(r.overflow /\ overflow_checks)
                            THEN last.returned \cup {r.addr}
                            ELSE last.returned,
                        !.previous =
                            IF last.op = "map" /\ last.ok
                            THEN Some(last.addr) ELSE last.previous,
                        !.sizes = last.sizes \cup {size},
                        !.requested =
                            (last.requested \/ preferred_base.some),
                        !.before = memory.virtual_mapper]
    /\ ops' = ops + 1
    /\ UNCHANGED cpu_state

Unmap(id) ==
    /\ ops < MaxMaps
    /\ ~last.panicked
    /\ \E r \in {VirtualAddressMapper_unmap(memory.virtual_mapper, id)} :
          /\ memory' = [memory EXCEPT !.virtual_mapper = r.vm]
          /\ last' = [NoMap EXCEPT
                        !.op = "unmap", !.ok = r.ok, !.block = id,
                        !.returned = last.returned,
                        !.previous =
                            IF last.op = "map" /\ last.ok
                            THEN Some(last.addr) ELSE last.previous,
                        !.sizes = last.sizes,
                        !.requested = last.requested,
                        !.before = memory.virtual_mapper]
    /\ ops' = ops + 1
    /\ UNCHANGED cpu_state

NextMapper ==
    \/ \E size \in MapSizes, preferred_base \in MapBases,
          overflow_checks \in BOOLEAN :
          Map(size, preferred_base, overflow_checks)
    \/ \E id \in 1..memory.virtual_mapper.blocks.next_id : Unmap(id)

SpecMapper == InitMapper /\ [][NextMapper]_vars

---------------------------------------------------------------------------
(* force_garbage_collection step by step: the seeds, one iteration of the *)
(* worklist loop per step, then the sweep.  It starts on a heap of three  *)
(* allocations of one word each, at the virtual bases 0, 1024 and 2048,   *)
(* built through allocate and set_data_word.  last is the collector's     *)
(* state: scans counts, per allocation, the iterations that read its      *)
(* bitfield and payload.                                                  *)

MaxGcSteps == 12

GcBases == {0, VIRTUAL_PAGE_SIZE, 2 * VIRTUAL_PAGE_SIZE}

(* Words to the three allocations, to an unmapped page, past the payload  *)
(* of a mapped page, and a word that is not tagged                        *)
GcWords ==
    {DataWord(to_le_bytes(b), TRUE) : b \in GcBases}
    \cup {DataWord(to_le_bytes(4 * VIRTUAL_PAGE_SIZE), TRUE),
          DataWord(to_le_bytes(VIRTUAL_PAGE_SIZE + WORD_BYTE_SIZE), TRUE),
          DataWord(to_le_bytes(2 * VIRTUAL_PAGE_SIZE), FALSE)}

(* No root, a root that is not tagged before one that is, and a root at   *)
(* the top of the address space                                           *)
GcRoots ==
    {<<>>,
     <<DataWord(to_le_bytes(VIRTUAL_PAGE_SIZE), FALSE),
       DataWord(to_le_bytes(0), TRUE)>>,
     <<DataWord(to_le_bytes(2 * VIRTUAL_PAGE_SIZE), TRUE),
       DataWord(MAX, TRUE)>>}

(* One more allocation of a word, holding the word given *)
gc_heap_add(mem, is_collectible, word) ==
    The({ set_data_word(a.mem, to_le_bytes(a.addr), word).mem
        : a \in {Memory_allocate(mem, WORD_BYTE_SIZE, is_collectible, <<>>,
                                 None, 0)} })

gc_heap(collectible, words) ==
    gc_heap_add(gc_heap_add(gc_heap_add(Memory_new(0), collectible[1],
                                        DataWord(to_le_bytes(0), FALSE)),
                            collectible[2], words[2]),
                collectible[3], words[3])

(* The first allocation gets its word last: it may point forward *)
GcHeaps ==
    { set_data_word(gc_heap(collectible, words), to_le_bytes(0),
                    words[1]).mem
      : collectible \in [1..3 -> BOOLEAN], words \in [1..3 -> GcWords] }

(* The orders in which a set may be walked *)
Orders(S) ==
    {order \in [1..Cardinality(S) -> S] :
        \A i, j \in 1..Cardinality(S) : order[i] = order[j] => i = j}

NoGc ==
    [op |-> "heap", ok |-> TRUE, roots |-> <<>>, next |-> <<>>,
     visited |-> {}, collectible |-> {}, scans |-> [id \in 1..3 |-> 0],
     skipped |-> 0, revisited |-> 0, start |-> Memory_new(0)]

InitGc ==
    /\ memory \in GcHeaps
    /\ cpu_state = CpuState_default
    /\ last = [NoGc EXCEPT !.start = memory]
    /\ ops = 0

GcSeed(gc_roots, order) ==
    /\ last.op = "heap"
    /\ last' = [last EXCEPT
                  !.op = "marking", !.roots = gc_roots,
                  !.next = tagged_roots(gc_roots)
                           \o pinned_bases(memory, order),
                  !.collectible = collectible_ids(memory)]
    /\ ops' = ops + 1
    /\ UNCHANGED <<memory, cpu_state>>

GcMark ==
    /\ last.op = "marking"
    /\ last.next # <<>>
    /\ ops < MaxGcSteps
    /\ \E s \in {mark_step(memory, last.next, last.visited,
                           last.collectible)},
          r \in {addr_to_allocation(memory, last.next[Len(last.next)])} :
          last' = [last EXCEPT
                     !.next = s.next, !.visited = s.visited,
                     !.collectible = s.collectible,
                     !.scans = [id \in 1..3 |->
                                   IF id = s.scanned THEN @[id] + 1
                                   ELSE @[id]],
                     !.skipped = IF r.ok THEN @ ELSE @ + 1,
                     !.revisited = IF r.ok /\ s.scanned = 0 THEN @ + 1
                                   ELSE @]
    /\ ops' = ops + 1
    /\ UNCHANGED <<memory, cpu_state>>

GcSweep ==
    /\ last.op = "marking"
    /\ last.next = <<>>
    /\ \E r \in {sweep(memory, last.collectible)} :
          /\ memory' = r.mem
          /\ last' = [last EXCEPT !.op = "done", !.ok = r.ok]
    /\ ops' = ops + 1
    /\ UNCHANGED cpu_state

NextGc ==
    \/ \E gc_roots \in GcRoots, order \in Orders(pinned_ids(memory)) :
          GcSeed(gc_roots, order)
    \/ GcMark
    \/ GcSweep

SpecGc == InitGc /\ [][NextGc]_vars

(* The collector is one call: once started it runs on *)
SpecGcFair == SpecGc /\ WF_vars(NextGc)


---------------------------------------------------------------------------
(* Memory::allocate where the heap has to grow several times.  The heap  *)
(* starts as Memory::new makes it with an INITIAL_MEMORY_SIZE of 4 or 6   *)
(* bytes, so that MAX_MEMORY_SIZE is four doublings away and is reached   *)
(* both exactly (4, 8, 16, 32, 64) and by the cap (6, 12, 24, 48, 64).    *)

GrowHeaps == {4, 6}

(* Regions of 0, 9, 16 and 41 bytes *)
GrowSizes == {0, 8, 15, 40}

InitGrow ==
    /\ \E size \in GrowHeaps :
          memory = [Memory_new(0) EXCEPT !.regions = HeapRegions_new(size),
                                         !.heap = Heap_new(size, 0)]
    /\ cpu_state = CpuState_default
    /\ last = NoLast
    /\ ops = 0

NextGrow ==
    \/ \E data_size \in GrowSizes, is_collectible \in BOOLEAN :
          Allocate(data_size, is_collectible, <<>>, None, 0)
    \/ ForceGarbageCollection(<<>>)

SpecGrow == InitGrow /\ [][NextGrow]_vars
---------------------------------------------------------------------------
(* The address mapper                                                     *)

mapper == memory.virtual_mapper

(* C21: next_address never decreases across any sequence of map and       *)
(* unmap, so the bases that successive maps return are strictly           *)
(* increasing and no base is returned a second time, even after its       *)
(* block was unmapped.                                                    *)
C21_NextAddressNeverDecreases ==
    [][/\ ~UWord_less(memory'.virtual_mapper.next_address,
                      memory.virtual_mapper.next_address)
       /\ (last'.op = "map" /\ last'.ok /\ ~last'.panicked)
          => \A b \in last.returned : UWord_less(b, last'.addr)]_vars

(* The latest call was map with a requested base *)
MappedAt == last.op = "map" /\ last.base.some

Misaligned(base) == base % VIRTUAL_PAGE_SIZE # 0

BelowNextAddress(base) == UWord_less(base, last.before.next_address)

(* C22: map with a preferred_base that is not a multiple of the page      *)
(* size, or that is below next_address, fails and leaves blocks, mappings *)
(* and next_address unchanged; with an acceptable preferred_base the      *)
(* base map returns is preferred_base.                                    *)
C22_PreferredBase ==
    MappedAt
    => IF Misaligned(last.base.value) \/ BelowNextAddress(last.base.value)
       THEN /\ ~last.ok
            /\ mapper = last.before
       ELSE ~last.panicked => last.ok /\ last.addr = last.base.value

(* A page-aligned base below next_address was refused *)
C22_Witness ==
    /\ MappedAt
    /\ ~Misaligned(last.base.value)
    /\ BelowNextAddress(last.base.value)
    /\ last.before.blocks.map # <<>>
    /\ ~last.ok /\ mapper = last.before

(* The keys of the mapping table that name a block *)
KeysOf(id) ==
    {key \in DOMAIN mapper.mappings : mapper.mappings[key].block = id}

(* n contiguous pages from base *)
Pages(base, n) == {base + p * VIRTUAL_PAGE_SIZE : p \in 0..(n - 1)}

RoundedUp(s) == (s + VIRTUAL_PAGE_SIZE - 1) \div VIRTUAL_PAGE_SIZE

LiveBlocks == DOMAIN mapper.blocks.map

(* C23: in every reachable state every key of the mapping table is        *)
(* page-aligned, and for each live block of size s the block's keys are   *)
(* exactly ceil(s / page) + 1 contiguous pages starting at its base.      *)
C23_KeysOfBlocks ==
    /\ \A key \in DOMAIN mapper.mappings : key % VIRTUAL_PAGE_SIZE = 0
    /\ \A id \in LiveBlocks :
          KeysOf(id) = Pages(mapper.blocks.map[id].base,
                             RoundedUp(mapper.blocks.map[id].size) + 1)

(* Only blocks of 16 KiB were mapped, none with a preferred base *)
OnlyBlocksOf16K == last.sizes = {16 * 1024} /\ ~last.requested

Mapped == last.op = "map" /\ last.ok /\ ~last.panicked

(* C24 as stated: when 16 KiB blocks are mapped one after another without *)
(* a preferred base, each base exceeds the previous one by 16 KiB plus    *)
(* the length of the reference bitfield of a 16 KiB block.                *)
C24_StrideWithBitfield ==
    (OnlyBlocksOf16K /\ Mapped /\ last.previous.some)
    => last.addr = last.previous.value + total_region_len(16 * 1024)

(* C24: when 16 KiB blocks are mapped one after another without a         *)
(* preferred base, the bases increase, and each base exceeds the previous *)
(* one by 17 pages: the 16 pages of the block and one more.               *)
C24_StrideOfPages ==
    (OnlyBlocksOf16K /\ Mapped)
    => /\ last.addr % VIRTUAL_PAGE_SIZE = 0
       /\ ~last.previous.some => last.addr = 0
       /\ last.previous.some
          => /\ last.addr > last.previous.value
             /\ last.addr = last.previous.value + 17 * VIRTUAL_PAGE_SIZE

(* The third block of 16 KiB, at 34 pages *)
C24_Witness ==
    /\ OnlyBlocksOf16K /\ Mapped
    /\ last.previous = Some(17 * VIRTUAL_PAGE_SIZE)
    /\ last.addr = 34 * VIRTUAL_PAGE_SIZE
    /\ Cardinality(last.returned) = 3

---------------------------------------------------------------------------
(* The collector, step by step                                            *)

GcDone == last.op = "done"

(* The word the heap held in the allocation at base when the collection   *)
(* started                                                                *)
StartWord(base) == get_data_word(last.start, to_le_bytes(base)).word

(* C25: force_garbage_collection terminates for every heap content,       *)
(* reference cycles, self-references and tagged words that translate to   *)
(* no allocation included; such words are skipped without an error; each  *)
(* allocation's payload is scanned at most once.  The call ends in the    *)
(* state that the collection as a whole is defined to end in.             *)
C25_CollectionTerminates ==
    /\ [](\A id \in 1..3 : last.op \in {"marking", "done"}
                           => last.scans[id] <= 1)
    /\ [](GcDone => /\ last.ok
                    /\ memory = force_garbage_collection(last.start,
                                                         last.roots).mem)
    /\ <>GcDone

(* A collection ended on a heap where the first two allocations point at  *)
(* each other, the third at itself, after skipping a root that translates *)
(* to nothing and meeting an allocation already visited                   *)
C25_Witness ==
    /\ GcDone /\ last.ok
    /\ StartWord(0) = DataWord(to_le_bytes(VIRTUAL_PAGE_SIZE), TRUE)
    /\ StartWord(VIRTUAL_PAGE_SIZE) = DataWord(to_le_bytes(0), TRUE)
    /\ StartWord(2 * VIRTUAL_PAGE_SIZE)
          = DataWord(to_le_bytes(2 * VIRTUAL_PAGE_SIZE), TRUE)
    /\ last.skipped > 0
    /\ last.revisited > 0
    /\ last.visited = {1, 2, 3}


---------------------------------------------------------------------------
(* C26, C27: the flags after the instructions that write a result *)

WritesWithFlags ==
    {"Move", "BitwiseAnd", "BitwiseOr", "BitwiseXor", "BitwiseNot"}

Arithmetic ==
    {"Add", "Subtract", "Multiply", "Divide", "ShiftLeft", "ShiftRight"}

(* The latest step executed an instruction of the set to its end *)
Executed(instructions) ==
    /\ last.op = "step" /\ last.ok
    /\ last.opcode.instruction \in instructions

(* What the destination of the latest instruction, its last operand,     *)
(* reads after the step                                                   *)
Stored ==
    Interpreter_read(cpu_state, memory,
                     last.opcode.operands[Len(last.opcode.operands)]).word

ZeroIffStored == cpu_state.zero_flag = (Stored.value = to_le_bytes(0))

(* C26: after mov, and, or, xor and not the carry flag is clear and the  *)
(* zero flag is set iff the value written to the destination is 0; after  *)
(* add, sub, mul, div, shl and shr the zero flag is set iff the stored    *)
(* result is 0.                                                           *)
C26_FlagsOfWrites ==
    /\ Executed(WritesWithFlags) => ~cpu_state.carry_flag /\ ZeroIffStored
    /\ Executed(Arithmetic) => ZeroIffStored

(* A bitwise instruction cleared the carry a sum had set and wrote 0 *)
C26_Witness ==
    /\ Executed({"BitwiseAnd"})
    /\ last.cpu.carry_flag /\ ~cpu_state.carry_flag
    /\ cpu_state.zero_flag /\ Stored.value = to_le_bytes(0)

(* The shift amount of the latest instruction: the word overflowing_shl  *)
(* and overflowing_shr are handed as `other`, read before the step        *)
Amount ==
    Interpreter_read(last.cpu, last.mem, last.opcode.operands[2]).word.value

(* C27: after shl and shr with a shift amount of 64 or more, amounts of  *)
(* 2^32 and above included, the carry flag is set.                        *)
C27_CarryFromAmount ==
    Executed({"ShiftLeft", "ShiftRight"}) /\ u64_overflows(Amount)
        => cpu_state.carry_flag

---------------------------------------------------------------------------
(* C28: what get, set, get_data_word and set_data_word touch *)

AccessAddresses ==
    {to_le_bytes(0), to_le_bytes(1), to_le_bytes(WORD_BYTE_SIZE),
     to_le_bytes(WORD_BYTE_SIZE + 1), to_le_bytes(2 * WORD_BYTE_SIZE - 1),
     to_le_bytes(2 * WORD_BYTE_SIZE), to_le_bytes(VIRTUAL_PAGE_SIZE),
     to_le_bytes(VIRTUAL_PAGE_SIZE + WORD_BYTE_SIZE),
     to_le_bytes(VIRTUAL_PAGE_SIZE + 2 * WORD_BYTE_SIZE - 1),
     to_le_bytes(VIRTUAL_PAGE_SIZE + 2 * WORD_BYTE_SIZE),
     to_le_bytes(2 * VIRTUAL_PAGE_SIZE), to_le_bytes(9 * VIRTUAL_PAGE_SIZE)}

AccessSizes == {0, 1, WORD_BYTE_SIZE, WORD_BYTE_SIZE + 1, 2 * WORD_BYTE_SIZE,
                2 * WORD_BYTE_SIZE + 1}

Written(size) == [i \in 1..size |-> 170]

(* The allocations whose block of pages holds the address *)
Owners(mem, a) ==
    { id \in DOMAIN mem.allocations.map :
        \E block \in {mem.virtual_mapper.blocks.map[
                          mem.allocations.map[id].virtual_block]} :
           /\ block.base <= a
           /\ a < block.base
                  + ((block.size \div VIRTUAL_PAGE_SIZE) + 1) * VIRTUAL_PAGE_SIZE }

OffsetIn(mem, id, a) ==
    a - mem.virtual_mapper.blocks.map[
            mem.allocations.map[id].virtual_block].base

(* The heap indices (from 1) of `size` payload bytes at the address; none *)
(* if the address has no owner or the bytes do not all lie in its payload *)
PayloadBytes(mem, a, size) ==
    UNION { IF OffsetIn(mem, id, a) + size > mem.allocations.map[id].data_length
            THEN {}
            ELSE { mem.allocations.map[id].start + OffsetIn(mem, id, a) + i
                   : i \in 1..size }
          : id \in Owners(mem, a) }

(* An access the claim says returns an error *)
Unmapped(mem, a) == Owners(mem, a) = {}

PastDataLength(mem, a, size) ==
    \E id \in Owners(mem, a) :
        OffsetIn(mem, id, a) + size > mem.allocations.map[id].data_length

(* The heap index and the bit of the tag of the word at the address *)
TagByte(mem, a) ==
    { bitfield_start(mem.allocations.map[id])
         + ((OffsetIn(mem, id, a) \div WORD_BYTE_SIZE) \div 8) + 1
      : id \in Owners(mem, a) }

TagBit(mem, a) ==
    { (OffsetIn(mem, id, a) \div WORD_BYTE_SIZE) % 8 : id \in Owners(mem, a) }

(* after differs from before in the heap alone, and there only at the   *)
(* indices of `bytes` and in the bits `bits` of the bytes at `tags`       *)
TouchesOnly(before, after, bytes, tags, bits) ==
    /\ [after EXCEPT !.heap = before.heap] = before
    /\ Len(after.heap) = Len(before.heap)
    /\ \A i \in 1..Len(before.heap) :
          \/ after.heap[i] = before.heap[i]
          \/ i \in bytes
          \/ /\ i \in tags
             /\ \A bit \in 0..7 :
                   \/ BitOf(after.heap[i], bit) = BitOf(before.heap[i], bit)
                   \/ bit \in bits

Lowest(S) == CHOOSE x \in S : \A y \in S : x <= y

BytesAccess(addr, size) ==
    \E a \in {from_le_bytes(addr)} :
    \E g \in {Memory_get(memory, addr, size)},
       s \in {Memory_set(memory, addr, Written(size))},
       bytes \in {PayloadBytes(memory, a, size)} :
        /\ Cardinality(Owners(memory, a)) <= 1
        /\ g.ok = s.ok
        /\ Unmapped(memory, a) \/ PastDataLength(memory, a, size) => ~g.ok
        /\ g.ok =>
              /\ Cardinality(bytes) = size
              /\ g.data = [i \in 1..size |-> memory.heap[Lowest(bytes) + i - 1]]
              /\ TouchesOnly(memory, s.mem, bytes, {}, {})
              /\ Memory_get(s.mem, addr, size).data = Written(size)
        /\ ~s.ok => s.mem = memory

WordAccess(addr, word) ==
    \E a \in {from_le_bytes(addr)} :
    \E g \in {get_data_word(memory, addr)},
       s \in {set_data_word(memory, addr, word)},
       bytes \in {PayloadBytes(memory, a, WORD_BYTE_SIZE)} :
        /\ g.ok = s.ok
        /\ \/ Unmapped(memory, a)
           \/ PastDataLength(memory, a, WORD_BYTE_SIZE)
           \/ a % WORD_BYTE_SIZE # 0
           => ~g.ok
        /\ g.ok =>
              /\ Cardinality(bytes) = WORD_BYTE_SIZE
              /\ TouchesOnly(memory, s.mem, bytes, TagByte(memory, a),
                             TagBit(memory, a))
        /\ ~s.ok => s.mem = memory

(* C28: a get, set, get_data_word or set_data_word that succeeds touches *)
(* only payload bytes of the one allocation that owns the address, and    *)
(* set_data_word besides them only the tag bit of the addressed word; an  *)
(* access to an unmapped page, past data_length or, for words, at an      *)
(* address that is not word-aligned returns an error and changes nothing. *)
C28_AccessesStayInPayload ==
    /\ \A addr \in AccessAddresses, size \in AccessSizes :
          BytesAccess(addr, size)
    /\ \A addr \in AccessAddresses, word \in ProbeWords :
          WordAccess(addr, word)

(* set_data_word has written the first word of the second of two live   *)
(* allocations; a write past its payload and a misaligned read are refused   *)
C28_Witness ==
    /\ last.op = "set_data_word"
    /\ last.addr = to_le_bytes(VIRTUAL_PAGE_SIZE)
    /\ Cardinality(DOMAIN memory.allocations.map) >= 2
    /\ get_data_word(memory, last.addr) = [ok |-> TRUE, word |-> last.word]
    /\ Memory_set(memory, to_le_bytes(VIRTUAL_PAGE_SIZE + WORD_BYTE_SIZE),
                  Written(WORD_BYTE_SIZE)).ok
    /\ ~Memory_set(memory, to_le_bytes(VIRTUAL_PAGE_SIZE + WORD_BYTE_SIZE),
                   Written(WORD_BYTE_SIZE + 1)).ok
    /\ ~get_data_word(memory, to_le_bytes(VIRTUAL_PAGE_SIZE + 1)).ok

---------------------------------------------------------------------------
(* C29: the layout compact leaves *)

IsUsedIn(regions, id) == is_used(regions.map.map[id])

(* The ids of the Used regions, in the order of in_order *)
RECURSIVE UsedInOrder(_, _)
UsedInOrder(regions, from) ==
    IF from > Len(regions.in_order) THEN <<>>
    ELSE (IF IsUsedIn(regions, regions.in_order[from])
          THEN <<regions.in_order[from]>> ELSE <<>>)
         \o UsedInOrder(regions, from + 1)

(* The ids of `ids`, in the order of in_order *)
RECURSIVE Among(_, _, _)
Among(regions, ids, from) ==
    IF from > Len(regions.in_order) THEN <<>>
    ELSE (IF regions.in_order[from] \in ids
          THEN <<regions.in_order[from]>> ELSE <<>>)
         \o Among(regions, ids, from + 1)

RECURSIVE LengthOfFirst(_, _, _)
LengthOfFirst(regions, used, n) ==
    IF n = 0 THEN 0
    ELSE regions.map.map[used[n]].length + LengthOfFirst(regions, used, n - 1)

FreeIds(regions) ==
    { regions.in_order[k] : k \in 1..Len(regions.in_order) }
    \ { id \in DOMAIN regions.map.map : IsUsedIn(regions, id) }

(* after is before compacted, in a heap of heap_len bytes *)
CompactLayout(before, after, heap_len) ==
    \E used \in {UsedInOrder(after, 1)} :
       /\ \A k \in 1..Len(used) :
             after.map.map[used[k]].base = LengthOfFirst(after, used, k - 1)
       /\ LengthOfFirst(after, used, Len(used)) = used_bytes(after)
       /\ used = Among(before, {used[k] : k \in 1..Len(used)}, 1)
       /\ \A k \in 1..Len(used) :
             /\ IsUsedIn(before, used[k])
             /\ after.map.map[used[k]].length = before.map.map[used[k]].length
             /\ after.map.map[used[k]].base <= before.map.map[used[k]].base
       /\ IF used_bytes(after) < heap_len
          THEN /\ Cardinality(FreeIds(after)) = 1
               /\ Len(after.in_order) = Len(used) + 1
               /\ \E free \in {after.map.map[after.in_order[Len(after.in_order)]]} :
                     /\ is_free(free)
                     /\ free.base = used_bytes(after)
                     /\ free.base + free.length = heap_len
          ELSE /\ FreeIds(after) = {}
               /\ Len(after.in_order) = Len(used)

(* C29: after compact, and so after force_garbage_collection, the Used   *)
(* regions lie one after another from 0 to used_bytes in the order they   *)
(* had, none at a higher base than before, and there is one Free region,  *)
(* the last, from used_bytes to the end of the heap, iff used_bytes is    *)
(* less than the length of the heap.                                      *)
C29_CompactLayout ==
    [][last'.op \in {"region_compact", "gc"} /\ last'.ok
          => CompactLayout(memory.regions, memory'.regions, Len(memory'.heap))
      ]_vars

(* compact has moved a Used region down over a Free one and left the    *)
(* Free region last                                                       *)
C29_Witness ==
    /\ last.op = "region_compact"
    /\ last.moved
    /\ UsedInOrder(memory.regions, 1) # <<>>
    /\ FreeIds(memory.regions) # {}

---------------------------------------------------------------------------
(* C30: the tags of a fresh allocation *)

(* The allocation the latest allocate inserted *)
Fresh == memory.allocations.map[memory.allocations.next_id - 1]

WordsOf(allocation) == 0..((allocation.data_length \div WORD_BYTE_SIZE) - 1)

(* C30: right after allocate returns, every word of the new allocation   *)
(* reads with is_reference = false, whatever its region held before, and  *)
(* a collection finds no tagged word to trace in it.                      *)
C30_FreshAllocationUntagged ==
    last.op = "allocate" /\ last.ok =>
        /\ \A w \in WordsOf(Fresh) :
              /\ is_reference(memory, wrapping_add(last.addr, w * WORD_BYTE_SIZE))
                    = [ok |-> TRUE, value |-> FALSE]
              /\ ~get_data_word(memory,
                                wrapping_add(last.addr, w * WORD_BYTE_SIZE)
                               ).word.is_reference
        /\ tagged_words(memory, Fresh, get_bitfield(memory, Fresh), 0) = <<>>

(* allocate collected an allocation and gave its region, which still     *)
(* holds the word written there, to the new one                           *)
C30_Witness ==
    /\ last.op = "allocate" /\ last.ok
    /\ last.collected # {}
    /\ last.size = 2 * WORD_BYTE_SIZE
    /\ Fresh.start = 0
    /\ get_word(memory, last.addr).value = to_le_bytes(VIRTUAL_PAGE_SIZE)

---------------------------------------------------------------------------
(* C31: the growth of the heap in allocate *)

(* len doubled k times under the cap *)
RECURSIVE Doubled(_, _)
Doubled(len, k) ==
    IF k = 0 THEN len ELSE Min(2 * Doubled(len, k - 1), MAX_MEMORY_SIZE)

MaxDoublings == 5

(* The latest allocate went as far as growing the heap *)
Grew(l) == l.op = "allocate" /\ l.path \in {"after_growth", "still_full"}

(* C31: when allocate grows the heap, the new length is the old one      *)
(* doubled, under the cap of MAX_MEMORY_SIZE, the least number of times   *)
(* that makes it hold the used bytes and the new region, and the attempt  *)
(* after the growth succeeds; no step makes the heap shorter.             *)
C31_HeapGrowth ==
    [][/\ Len(memory'.heap) >= Len(memory.heap)
       /\ Grew(last') =>
             /\ last'.path = "after_growth"
             /\ \E k \in 0..MaxDoublings :
                   /\ Len(memory'.heap) = Doubled(Len(memory.heap), k)
                   /\ Len(memory'.heap) >= used_bytes(memory'.regions)
                   /\ k > 0 => Doubled(Len(memory.heap), k - 1)
                                  < used_bytes(memory'.regions)
      ]_vars

(* allocate grew the heap to MAX_MEMORY_SIZE for a region of 41 bytes    *)
(* beside an earlier allocation                                           *)
C31_Witness ==
    /\ Grew(last) /\ last.ok
    /\ last.size = 40
    /\ Len(memory.heap) = MAX_MEMORY_SIZE
    /\ Cardinality(DOMAIN memory.allocations.map) >= 2

---------------------------------------------------------------------------
(* C32: an allocate the mapper refused *)

(* C32: when allocate fails because the mapper rejects preferred_base,   *)
(* the region list, the allocation table and the mapper are as they were  *)
(* before the call.                                                       *)
C32_RefusedBaseChangesNothing ==
    [][last'.op = "allocate" /\ last'.error = "BadBase" =>
          /\ memory'.regions = memory.regions
          /\ memory'.allocations = memory.allocations
          /\ memory'.virtual_mapper = memory.virtual_mapper
      ]_vars

---------------------------------------------------------------------------
(* C33: allocations and the regions they record *)

(* C33: in every state each allocation starts at the base of the region  *)
(* it records, that region is Used by the allocation's id, and its length *)
(* is data_length plus one bitfield byte for every 64 bytes or part of    *)
(* them.                                                                  *)
C33_AllocationsMatchRegions ==
    \A id \in DOMAIN memory.allocations.map :
       \E a \in {memory.allocations.map[id]} :
          /\ a.region \in DOMAIN memory.regions.map.map
          /\ \E r \in {memory.regions.map.map[a.region]} :
                /\ a.start = r.base
                /\ r.state = [allocation |-> id, used |-> TRUE]
                /\ r.length = a.data_length + ((a.data_length + 63) \div 64)

(* A collection has moved an allocation of 16 bytes down *)
C33_Witness ==
    /\ last.op = "gc" /\ last.ok /\ last.moved
    /\ \E id \in DOMAIN memory.allocations.map :
          /\ memory.allocations.map[id].data_length = 2 * WORD_BYTE_SIZE
          /\ memory.allocations.map[id].start = 0
          /\ id >= 2

---------------------------------------------------------------------------
(* C34: the operand counts of step and of the descriptors *)

(* The latest step ran the arm of an opcode that Opcode::decode accepted *)
Accepted == last.op = "step" /\ last.opcode # NoOpcode

(* C34: an opcode accepted by Opcode::decode never fails with the        *)
(* interpreter's operand-count error.                                     *)
C34_NoOperandCountError == Accepted => last.error # OperandCount

---------------------------------------------------------------------------
(* C35: immediates as destinations *)

Writers ==
    {"Move", "Add", "Subtract", "Multiply", "Divide", "BitwiseAnd",
     "BitwiseOr", "BitwiseXor", "BitwiseNot", "ShiftLeft", "ShiftRight",
     "Pop", "Reference", "Unreference"}

ImmediateDestinationRefused ==
    (last.op = "step" /\ last.program \in ImmediateDestinationPrograms)
       => /\ ~last.ok /\ last.opcode = NoOpcode
          /\ last.error = "operand mode"
          /\ cpu_state.registers = last.cpu.registers
          /\ cpu_state.stack_pointer = last.cpu.stack_pointer
          /\ memory = last.mem

---------------------------------------------------------------------------
(* C36: the reference tag of results *)

(* What operand i of the latest instruction read before the step *)
Input(i) == Interpreter_read(last.cpu, last.mem, last.opcode.operands[i]).word

(* The step changed the destination, the instruction pointer and nothing *)
(* else                                                                   *)
OnlyDestination ==
    /\ cpu_state.stack_pointer = last.cpu.stack_pointer
    /\ cpu_state.carry_flag = last.cpu.carry_flag
    /\ cpu_state.zero_flag = last.cpu.zero_flag
    /\ \A r \in 0..(REGISTER_NUM - 1) :
          (last.opcode.operands[1].kind = "Register"
              /\ last.opcode.operands[1].register = r)
          \/ cpu_state.registers[r] = last.cpu.registers[r]
    /\ last.opcode.operands[1].kind = "Register" => memory = last.mem

(* C36: the tag of a result follows the inputs. mov stores the source's  *)
(* tag, not keeps its operand's tag, the two-operand arithmetic, bitwise  *)
(* and shift instructions tag the result iff an operand was tagged, an    *)
(* immediate reads untagged, and ref and unref store the value they read  *)
(* with the tag set and cleared, changing nothing else.                   *)
C36_TagsFollowInputs ==
    /\ Executed({"Move"}) => Stored.is_reference = Input(1).is_reference
    /\ Executed({"BitwiseNot"}) => Stored.is_reference = Input(1).is_reference
    /\ Executed(TwoOperand) =>
          Stored.is_reference
             = (Input(1).is_reference \/ Input(2).is_reference)
    /\ Accepted =>
          \A i \in 1..Len(last.opcode.operands) :
             last.opcode.operands[i].kind = "Immediate"
                => ~Input(i).is_reference
    /\ Executed({"Reference"}) =>
          /\ Stored = DataWord(Input(1).value, TRUE)
          /\ OnlyDestination
    /\ Executed({"Unreference"}) =>
          /\ Stored = DataWord(Input(1).value, FALSE)
          /\ OnlyDestination

(* A sum of an untagged register into a tagged word of the stack stored  *)
(* a tagged result                                                        *)
C36_Witness ==
    /\ Executed({"Add"})
    /\ last.opcode.operands[1].kind = "Register"
    /\ last.opcode.operands[2].kind = "Stack"
    /\ ~Input(1).is_reference /\ Input(2).is_reference
    /\ Stored = DataWord(to_le_bytes(9), TRUE)

---------------------------------------------------------------------------
(* C37: the instructions that leave the flags alone, and cmp *)

KeepFlags ==
    {"Push", "Pop", "Reference", "Unreference", "NoOperation", "Call",
     "Return", "Jump"} \cup ConditionalJumps

SameFlags ==
    /\ cpu_state.carry_flag = last.cpu.carry_flag
    /\ cpu_state.zero_flag = last.cpu.zero_flag

---------------------------------------------------------------------------
(* C38: push on a full stack, pop on an empty one *)

(* The loader's two allocations: the image is the first, the stack the   *)
(* second (run)                                                           *)
ImageOf(mem) == mem.allocations.map[1]

StackOf(mem) == mem.allocations.map[2]

BaseOf(mem, allocation) ==
    mem.virtual_mapper.blocks.map[allocation.virtual_block].base

(* The stack pointer when every word of the stack is taken, and when     *)
(* none is                                                                *)
FullPointer(mem) ==
    wrapping_sub(to_le_bytes(BaseOf(mem, StackOf(mem))), WORD_BYTE_SIZE)

EmptyPointer(mem) ==
    wrapping_sub(wrapping_add(to_le_bytes(BaseOf(mem, StackOf(mem))),
                              STACK_SIZE),
                 WORD_BYTE_SIZE)

(* The word below the base that follows a block of len bytes lies in the *)
(* block's last page, at or past its data                                 *)
LastWordUnmapped(len) ==
    Cardinality(DOMAIN pages_of(0, len)) * VIRTUAL_PAGE_SIZE - WORD_BYTE_SIZE
       >= len

ImageLengths ==
    { aligned_len(n) : n \in 0..ProgramBytes }
    \cup { k * VIRTUAL_PAGE_SIZE + d * WORD_BYTE_SIZE
           : k \in 0..2, d \in {0, 1, VIRTUAL_PAGE_SIZE \div WORD_BYTE_SIZE - 1} }

(* C38: with the loader's stack, a push (push or call) at a full stack   *)
(* fails, the stack pointer and the whole memory, the image below the     *)
(* stack included, are as before; a pop (pop or ret) at an empty stack    *)
(* fails and memory is as before.  The word below the stack's base is     *)
(* past the data of an image of any word-aligned length.                  *)
C38_StackBounds ==
    /\ (/\ Accepted /\ last.opcode.instruction \in {"Push", "Call"}
        /\ last.cpu.stack_pointer = FullPointer(last.mem))
          => /\ ~last.ok /\ last.error # ""
             /\ cpu_state.stack_pointer = last.cpu.stack_pointer
             /\ memory = last.mem
    /\ (/\ Accepted /\ last.opcode.instruction \in {"Pop", "Return"}
        /\ last.cpu.stack_pointer = EmptyPointer(last.mem))
          => /\ ~last.ok /\ last.error # ""
             /\ memory = last.mem
             /\ cpu_state.registers = last.cpu.registers
    /\ \A len \in ImageLengths : LastWordUnmapped(len)
    /\ BaseOf(memory, StackOf(memory))
          = Cardinality(DOMAIN pages_of(0, ImageOf(memory).data_length))
               * VIRTUAL_PAGE_SIZE

(* A push found the stack full of the words pushed before and failed *)
C38_Witness ==
    /\ Accepted /\ last.opcode.instruction = "Push" /\ ~last.ok
    /\ last.cpu.stack_pointer = FullPointer(last.mem)
    /\ cpu_state.stack_pointer = FullPointer(memory)
    /\ \A i \in 1..StackWords :
          get_data_word(memory,
                        wrapping_add(cpu_state.stack_pointer,
                                     i * WORD_BYTE_SIZE)).word
             = DataWord(to_le_bytes(5), FALSE)

---------------------------------------------------------------------------
(* C39: a second collection with the same roots *)

(* Base, length and state of the regions, in heap order *)
Layout(regions) ==
    [index \in 1..Len(regions.in_order) |->
        [base |-> RegionAt(regions, index).base,
         length |-> RegionAt(regions, index).length,
         state |-> RegionAt(regions, index).state]]

(* The second run: force_garbage_collection once more, with the roots of *)
(* the run just made                                                      *)
Again == force_garbage_collection(memory, last.roots)

(* C39: after a force_garbage_collection, a second one with the same     *)
(* roots and nothing in between deallocates nothing and leaves the        *)
(* allocations with their starts, the virtual mapper, every byte of the   *)
(* heap (payloads and tags) and the base, length and state of every       *)
(* region as they are.                                                    *)
C39_SecondCollectionChangesNothing ==
    (last.op = "gc" /\ last.ok) =>
        /\ Again.ok
        /\ Collected(memory, Again.mem) = {}
        /\ Again.mem.allocations = memory.allocations
        /\ Again.mem.virtual_mapper = memory.virtual_mapper
        /\ Again.mem.heap = memory.heap
        /\ Layout(Again.mem.regions) = Layout(memory.regions)

(* The run just made collected an allocation and moved another; the      *)
(* second run gives the trailing Free region a new id                     *)
C39_Witness ==
    /\ last.op = "gc" /\ last.ok
    /\ last.collected # {} /\ last.moved
    /\ DOMAIN memory.allocations.map # {}
    /\ Again.mem.regions # memory.regions
====
